---- MODULE Spec2Model ----
(***************************************************************************)
(* A model of the pure transformation core of tufancalisir.de:             *)
(*   - the JSON-LD schema constructors and schemaToJson (utils/jsonld.ts), *)
(*   - the build-mode helper getStoryblokVersion (utils/env.ts),           *)
(*   - the RSS endpoint GET (pages/rss.xml.js),                            *)
(*   - the heading-anchor extraction headlineAnchorIds,                    *)
(*   - the build configuration (astro.config) and the page fetches,        *)
(*   - the image utilities optimizeStoryblokImage and                      *)
(*     generateResponsiveImageData (utils/optimizeImage.ts),               *)
(*   - the form component Select.                                          *)
(*                                                                         *)
(* JavaScript values are tagged records:                                   *)
(*   [t |-> "undefined"], [t |-> "null"], [t |-> "string", s |-> tokens],  *)
(*   [t |-> "number", n |-> Nat], [t |-> "array", a |-> <<values>>],       *)
(*   [t |-> "object", o |-> <<[k |-> key, v |-> value], ...>>]             *)
(* An object keeps its properties in insertion order, as JavaScript does.  *)
(* A string is the sequence of its tokens; a token stands for a fixed      *)
(* piece of text (one character such as the double quote, or a word such   *)
(* as "https:"), and the string is the concatenation of its tokens.        *)
(***************************************************************************)
EXTENDS Integers, Sequences, FiniteSets, TLC

VARIABLES DEV, MODE, ENABLE_STORYBLOK_BRIDGE, output, config, pc, op, args, result, json,
          fetch, rssCalls

vars ==
  <<DEV, MODE, ENABLE_STORYBLOK_BRIDGE, output, config, pc, op, args, result, json, fetch,
    rssCalls>>

\* the build environment and the configuration loaded from it: no operation
\* assigns to them
env == <<DEV, MODE, ENABLE_STORYBLOK_BRIDGE, output, config>>

-----------------------------------------------------------------------------
(* JavaScript values *)

Undef == [t |-> "undefined"]

Null == [t |-> "null"]

Str(s) == [t |-> "string", s |-> s]

Num(n) == [t |-> "number", n |-> n]

Arr(a) == [t |-> "array", a |-> a]

Obj(o) == [t |-> "object", o |-> o]

P(k, v) == [k |-> k, v |-> v]

Bool(b) == [t |-> "boolean", b |-> b]

Threw(e) == [t |-> "throw", e |-> e]

\* a faulty variant: everything but undefined and null counts
TruthyDefined(v) == v.t \notin {"undefined", "null"}

\* ToBoolean: undefined, null, false and the empty string are falsy
Truthy(v) ==
  CASE v.t = "undefined" -> FALSE
    [] v.t = "null" -> FALSE
    [] v.t = "string" -> v.s # <<>>
    [] v.t = "boolean" -> v.b
    [] OTHER -> TRUE

Keys(v) == {v.o[i].k : i \in DOMAIN v.o}

HasKey(v, k) == v.t = "object" /\ k \in Keys(v)

\* property read v.k: undefined when the property is not there
Get(v, k) ==
  IF HasKey(v, k) THEN v.o[CHOOSE i \in DOMAIN v.o : v.o[i].k = k].v ELSE Undef

\* v?.k
OptGet(v, k) == IF v.t \in {"undefined", "null"} THEN Undef ELSE Get(v, k)

\* v?.[i], i counted from 0
OptIdx(v, i) ==
  IF v.t = "array" /\ i + 1 \in DOMAIN v.a THEN v.a[i + 1] ELSE Undef

\* obj.k = v: overwrite in place, or append as the last property
SetKey(obj, k, v) ==
  IF HasKey(obj, k)
  THEN Obj([i \in DOMAIN obj.o |-> IF obj.o[i].k = k THEN P(k, v) ELSE obj.o[i]])
  ELSE Obj(Append(obj.o, P(k, v)))

\* a faulty variant: the assignment without its guard
SetAlways(cond, obj, k, v) == SetKey(obj, k, v)

\* if (cond) obj.k = v
SetIf(cond, obj, k, v) == IF cond THEN SetKey(obj, k, v) ELSE obj

RECURSIVE DeepEqual(_, _)
DeepEqual(x, y) ==
  /\ x.t = y.t
  /\ CASE x.t = "string" -> x.s = y.s
       [] x.t = "number" -> x.n = y.n
       [] x.t = "array" ->
            /\ Len(x.a) = Len(y.a)
            /\ \A i \in DOMAIN x.a : DeepEqual(x.a[i], y.a[i])
       [] x.t = "object" ->
            /\ Len(x.o) = Len(y.o)
            /\ Keys(x) = Keys(y)
            /\ \A k \in Keys(x) : DeepEqual(Get(x, k), Get(y, k))
       [] x.t = "date" -> x.valid = y.valid /\ x.minutes = y.minutes
       [] OTHER -> TRUE

-----------------------------------------------------------------------------
(* JSON.stringify and JSON.parse, token by token *)

Quote == "\""

Backslash == "\\"

Digits == <<"0", "1", "2", "3", "4", "5", "6", "7", "8", "9">>

RECURSIVE NumToJson(_)
NumToJson(n) ==
  IF n < 10 THEN <<Digits[n + 1]>>
  ELSE NumToJson(n \div 10) \o <<Digits[(n % 10) + 1]>>

\* a faulty variant: no character is escaped
EscapeNothing(s) == s

\* QuoteJSONString escapes the double quote and the backslash
RECURSIVE EscapeJson(_)
EscapeJson(s) ==
  IF s = <<>> THEN <<>>
  ELSE (IF Head(s) \in {Quote, Backslash} THEN <<Backslash, Head(s)>> ELSE <<Head(s)>>)
       \o EscapeJson(Tail(s))

QuoteJSONString(s) == <<Quote>> \o EscapeJson(s) \o <<Quote>>

RECURSIVE JoinComma(_)
JoinComma(parts) ==
  IF parts = <<>> THEN <<>>
  ELSE IF Len(parts) = 1 THEN parts[1]
  ELSE parts[1] \o <<",">> \o JoinComma(Tail(parts))

\* JSON.stringify(v): a property whose value is undefined is left out, an
\* undefined array element is written as null
RECURSIVE JSONstringify(_)
JSONstringify(v) ==
  CASE v.t = "string" -> QuoteJSONString(v.s)
    [] v.t = "number" -> NumToJson(v.n)
    [] v.t = "null" -> <<"null">>
    [] v.t = "array" ->
         <<"[">>
         \o JoinComma([i \in DOMAIN v.a |->
              IF v.a[i].t = "undefined" THEN <<"null">> ELSE JSONstringify(v.a[i])])
         \o <<"]">>
    [] v.t = "object" ->
         LET kept == SelectSeq(v.o, LAMBDA p : p.v.t # "undefined")
         IN <<"{">>
            \o JoinComma([i \in DOMAIN kept |->
                 QuoteJSONString(<<kept[i].k>>) \o <<":">> \o JSONstringify(kept[i].v)])
            \o <<"}">>

Fail == [ok |-> FALSE, v |-> Undef, i |-> 0]

Tok(toks, i) == IF i \in DOMAIN toks THEN toks[i] ELSE "<eof>"

DigitValue(d) == (CHOOSE k \in DOMAIN Digits : Digits[k] = d) - 1

IsDigit(d) == \E k \in DOMAIN Digits : Digits[k] = d

\* the characters of a string literal, from the token after its opening quote
RECURSIVE ScanString(_, _, _)
ScanString(toks, i, acc) ==
  CASE i \notin DOMAIN toks -> Fail
    [] Tok(toks, i) = Quote -> [ok |-> TRUE, v |-> Str(acc), i |-> i + 1]
    [] Tok(toks, i) = Backslash ->
         IF Tok(toks, i + 1) \in {Quote, Backslash}
         THEN ScanString(toks, i + 2, Append(acc, toks[i + 1]))
         ELSE Fail
    [] OTHER -> ScanString(toks, i + 1, Append(acc, toks[i]))

RECURSIVE ScanNumber(_, _, _)
ScanNumber(toks, i, acc) ==
  IF IsDigit(Tok(toks, i))
  THEN ScanNumber(toks, i + 1, 10 * acc + DigitValue(toks[i]))
  ELSE [ok |-> TRUE, v |-> Num(acc), i |-> i]

RECURSIVE ParseValue(_, _)
RECURSIVE ParseElements(_, _, _)
RECURSIVE ParseMembers(_, _, _)

ParseValue(toks, i) ==
  CASE Tok(toks, i) = Quote -> ScanString(toks, i + 1, <<>>)
    [] Tok(toks, i) = "null" -> [ok |-> TRUE, v |-> Null, i |-> i + 1]
    [] IsDigit(Tok(toks, i)) -> ScanNumber(toks, i, 0)
    [] Tok(toks, i) = "[" ->
         IF Tok(toks, i + 1) = "]"
         THEN [ok |-> TRUE, v |-> Arr(<<>>), i |-> i + 2]
         ELSE ParseElements(toks, i + 1, <<>>)
    [] Tok(toks, i) = "{" ->
         IF Tok(toks, i + 1) = "}"
         THEN [ok |-> TRUE, v |-> Obj(<<>>), i |-> i + 2]
         ELSE ParseMembers(toks, i + 1, Obj(<<>>))
    [] OTHER -> Fail

ParseElements(toks, i, acc) ==
  LET e == ParseValue(toks, i)
  IN IF ~e.ok THEN Fail
     ELSE CASE Tok(toks, e.i) = "," -> ParseElements(toks, e.i + 1, Append(acc, e.v))
            [] Tok(toks, e.i) = "]" -> [ok |-> TRUE, v |-> Arr(Append(acc, e.v)), i |-> e.i + 1]
            [] OTHER -> Fail

\* a member is "key":value; a repeated key overwrites the earlier member
ParseMembers(toks, i, acc) ==
  IF Tok(toks, i) # Quote THEN Fail
  ELSE LET k == ScanString(toks, i + 1, <<>>)
       IN IF ~k.ok \/ Len(k.v.s) # 1 \/ Tok(toks, k.i) # ":" THEN Fail
          ELSE LET m == ParseValue(toks, k.i + 1)
               IN IF ~m.ok THEN Fail
                  ELSE CASE Tok(toks, m.i) = "," ->
                              ParseMembers(toks, m.i + 1, SetKey(acc, k.v.s[1], m.v))
                         [] Tok(toks, m.i) = "}" ->
                              [ok |-> TRUE, v |-> SetKey(acc, k.v.s[1], m.v), i |-> m.i + 1]
                         [] OTHER -> Fail

JSONparse(toks) ==
  LET r == ParseValue(toks, 1)
  IN IF r.ok /\ r.i = Len(toks) + 1 THEN r.v ELSE Threw("SyntaxError")

-----------------------------------------------------------------------------
(* new URL(input, base).toString() for the URL shapes of UrlPool/BasePool:  *)
(* scheme token, "//", host token, then "/"-separated path segments; or a   *)
(* scheme token followed by an opaque rest (mailto:).  A parsed URL is      *)
(* [ok, special, scheme, host, path] with path the list of its segments     *)
(* ("" for an empty segment).                                               *)

SchemeTokens == {"http:", "https:", "HTTP:", "mailto:"}

SpecialSchemes == {"http:", "https:"}

\* ASCII lowercase of a scheme or host token
Lower(tok) ==
  CASE tok = "HTTP:" -> "http:"
    [] tok = "H.DE" -> "h.de"
    [] OTHER -> tok

\* the pieces between the "/" separators
RECURSIVE SplitPath(_)
SplitPath(toks) ==
  IF toks = <<>> THEN <<"">>
  ELSE IF toks[1] = "/" THEN <<"">> \o SplitPath(Tail(toks))
  ELSE IF Len(toks) = 1 THEN <<toks[1]>>
  ELSE <<toks[1]>> \o SplitPath(SubSeq(toks, 3, Len(toks)))

DropLast(path) == IF path = <<>> THEN <<>> ELSE SubSeq(path, 1, Len(path) - 1)

\* path state of the URL parser: ".." shortens the path, "." adds nothing,
\* and either one as the last segment leaves a trailing empty segment
RECURSIVE PushSegments(_, _)
PushSegments(path, segs) ==
  IF segs = <<>> THEN path
  ELSE LET seg == Head(segs)
           last == Len(segs) = 1
       IN CASE seg = ".." ->
                 PushSegments(IF last THEN Append(DropLast(path), "") ELSE DropLast(path),
                              Tail(segs))
            [] seg = "." ->
                 PushSegments(IF last THEN Append(path, "") ELSE path, Tail(segs))
            [] OTHER -> PushSegments(Append(path, seg), Tail(segs))

\* the path tokens that follow the host: "" or "/seg/seg..."
PathAfterHost(toks) ==
  PushSegments(<<>>, SplitPath(IF toks # <<>> /\ toks[1] = "/" THEN Tail(toks) ELSE toks))

NoUrl == [ok |-> FALSE, special |-> FALSE, scheme |-> "", host |-> "", path |-> <<>>]

\* basic URL parser without a base: the input must start with a scheme
ParseAbsolute(u) ==
  IF u = <<>> \/ u[1] \notin SchemeTokens THEN NoUrl
  ELSE IF Lower(u[1]) \in SpecialSchemes
  THEN IF Len(u) >= 3 /\ u[2] = "//"
       THEN [ok |-> TRUE, special |-> TRUE, scheme |-> Lower(u[1]), host |-> Lower(u[3]),
             path |-> PathAfterHost(SubSeq(u, 4, Len(u)))]
       ELSE NoUrl
  ELSE [ok |-> TRUE, special |-> FALSE, scheme |-> Lower(u[1]), host |-> "",
        path |-> Tail(u)]

\* basic URL parser with a parsed base
ParseRelative(u, b) ==
  CASE ~b.special -> NoUrl
    [] u = <<>> -> b
    [] u[1] = "//" ->
         IF Len(u) >= 2
         THEN [b EXCEPT !.host = Lower(u[2]), !.path = PathAfterHost(SubSeq(u, 3, Len(u)))]
         ELSE NoUrl
    [] u[1] = "/" -> [b EXCEPT !.path = PathAfterHost(u)]
    [] OTHER -> [b EXCEPT !.path = PushSegments(DropLast(b.path), SplitPath(u))]

RECURSIVE SerializePath(_)
SerializePath(path) ==
  IF path = <<>> THEN <<>>
  ELSE (IF Head(path) = "" THEN <<"/">> ELSE <<"/", Head(path)>>) \o SerializePath(Tail(path))

URLtoString(p) ==
  IF p.special THEN <<p.scheme, "//", p.host>> \o SerializePath(p.path)
  ELSE <<p.scheme>> \o p.path

\* a faulty variant: the base is looked at only for a relative input
newURLLenient(u, base) ==
  LET b == ParseAbsolute(base)
      a == ParseAbsolute(u)
      r == IF a.ok THEN a ELSE ParseRelative(u, b)
  IN IF r.ok /\ (a.ok \/ b.ok) THEN Str(URLtoString(r)) ELSE Threw("TypeError")

\* new URL(u, base).toString(): TypeError when the base does not parse, or
\* when the input parses neither alone nor against the base
newURL(u, base) ==
  LET b == ParseAbsolute(base)
      a == ParseAbsolute(u)
      r == IF a.ok THEN a ELSE ParseRelative(u, b)
  IN IF b.ok /\ r.ok THEN Str(URLtoString(r)) ELSE Threw("TypeError")

\* String.prototype.startsWith for the two prefixes the code tests
startsWithHttp(u) == Len(u) >= 2 /\ u[1] = "http:" /\ u[2] = "//"

startsWithHttps(u) == Len(u) >= 2 /\ u[1] = "https:" /\ u[2] = "//"

-----------------------------------------------------------------------------
(* utils/jsonld.ts *)

\* a faulty variant: the vocabulary's old http address
SchemaOrgHttp == Str(<<"http://schema.org">>)

SchemaOrg == Str(<<"https://schema.org">>)

createPersonSchema(data) ==
  LET s0 == Obj(<<P("@context", SchemaOrg), P("@type", Str(<<"Person">>)),
                  P("name", Get(data, "name")), P("url", Get(data, "url"))>>)
      s1 == SetIf(Truthy(Get(data, "jobTitle")), s0, "jobTitle", Get(data, "jobTitle"))
      s2 == SetIf(Truthy(Get(data, "description")), s1, "description", Get(data, "description"))
      s3 == SetIf(Truthy(Get(data, "image")), s2, "image", Get(data, "image"))
      sameAs == Get(data, "sameAs")
  IN SetIf(Truthy(sameAs) /\ Len(sameAs.a) > 0, s3, "sameAs", sameAs)

\* a faulty variant: the publisher is set whether or not a publisherName is given
withPublisherAlways(schema, data) ==
  SetKey(schema, "publisher",
         Obj(<<P("@type", Str(<<"Person">>)), P("name", Get(data, "publisherName"))>>))

\* a faulty variant: a publisherUrl alone is enough for a publisher
withPublisherForUrl(schema, data) ==
  IF Truthy(Get(data, "publisherName")) \/ Truthy(Get(data, "publisherUrl"))
  THEN LET p0 == Obj(<<P("@type", Str(<<"Person">>)), P("name", Get(data, "publisherName"))>>)
       IN SetKey(schema, "publisher",
                 SetIf(Truthy(Get(data, "publisherUrl")), p0, "url", Get(data, "publisherUrl")))
  ELSE schema

\* if (data.publisherName) { schema.publisher = {...}; if (data.publisherUrl) ... }
withPublisher(schema, data) ==
  IF Truthy(Get(data, "publisherName"))
  THEN LET p0 == Obj(<<P("@type", Str(<<"Person">>)), P("name", Get(data, "publisherName"))>>)
       IN SetKey(schema, "publisher",
                 SetIf(Truthy(Get(data, "publisherUrl")), p0, "url", Get(data, "publisherUrl")))
  ELSE schema

createWebsiteSchema(data) ==
  LET s0 == Obj(<<P("@context", SchemaOrg), P("@type", Str(<<"WebSite">>)),
                  P("name", Get(data, "name")), P("url", Get(data, "url"))>>)
      s1 == SetIf(Truthy(Get(data, "description")), s0, "description", Get(data, "description"))
  IN withPublisher(s1, data)

createBlogPostSchema(data) ==
  LET s0 == Obj(<<P("@context", SchemaOrg), P("@type", Str(<<"BlogPosting">>)),
                  P("headline", Get(data, "headline")),
                  P("description", Get(data, "description")),
                  P("author", Obj(<<P("@type", Str(<<"Person">>)),
                                    P("name", Get(data, "authorName"))>>)),
                  P("datePublished", Get(data, "datePublished")),
                  P("url", Get(data, "url")),
                  P("mainEntityOfPage", Obj(<<P("@type", Str(<<"WebPage">>)),
                                              P("@id", Get(data, "url"))>>))>>)
      s1 == SetIf(Truthy(Get(data, "authorUrl")), s0, "author",
                  SetKey(Get(s0, "author"), "url", Get(data, "authorUrl")))
      s2 == SetIf(Truthy(Get(data, "dateModified")), s1, "dateModified", Get(data, "dateModified"))
      s3 == SetIf(Truthy(Get(data, "image")), s2, "image", Get(data, "image"))
  IN withPublisher(s3, data)

\* is the item url one the code leaves alone (it starts with http:// or https://)
keepsUrl(u) == startsWithHttp(u) \/ startsWithHttps(u)

\* a faulty variant: a url is resolved whether or not a baseUrl is given
breadcrumbItemUrlAlwaysResolved(item, baseUrl) ==
  LET itemUrl == Get(item, "url")
  IN IF Truthy(itemUrl) /\ ~keepsUrl(itemUrl.s)
     THEN newURL(itemUrl.s, IF Truthy(baseUrl) THEN baseUrl.s ELSE <<>>)
     ELSE itemUrl

\* let itemUrl = item.url; if (itemUrl && baseUrl) { if (!startsWith...) itemUrl = new URL(...) }
breadcrumbItemUrl(item, baseUrl) ==
  LET itemUrl == Get(item, "url")
  IN IF Truthy(itemUrl) /\ Truthy(baseUrl) /\ ~keepsUrl(itemUrl.s)
     THEN newURL(itemUrl.s, baseUrl.s)
     ELSE itemUrl

\* a faulty variant: the 0-based index is used as the position
listItemPositionFromZero(index) == index

\* position: index + 1
listItemPosition(index) == index + 1

\* the callback of items.map; index counts from 0
breadcrumbListItem(item, index, baseUrl) ==
  LET itemUrl == breadcrumbItemUrl(item, baseUrl)
  IN IF itemUrl.t = "throw" THEN itemUrl
     ELSE Obj(<<P("@type", Str(<<"ListItem">>)),
                P("position", Num(listItemPosition(index))),
                P("name", Get(item, "name"))>>
              \o (IF Truthy(itemUrl) THEN <<P("item", itemUrl)>> ELSE <<>>))

\* items.map(callback): one element per item, in order
mapItems(items, baseUrl) ==
  [i \in DOMAIN items.a |-> breadcrumbListItem(items.a[i], i - 1, baseUrl)]

createBreadcrumbSchema(items, baseUrl) ==
  LET els == mapItems(items, baseUrl)
  IN IF \E i \in DOMAIN els : els[i].t = "throw"
     THEN els[CHOOSE i \in DOMAIN els :
                els[i].t = "throw" /\ \A j \in 1..(i - 1) : els[j].t # "throw"]
     ELSE Obj(<<P("@context", SchemaOrg), P("@type", Str(<<"BreadcrumbList">>)),
                P("itemListElement", Arr(els))>>)

schemaToJson(schema) == JSONstringify(schema)

-----------------------------------------------------------------------------
(* Build mode: utils/env.ts *)

\* a faulty variant: a || b ? x : y read as a || (b ? x : y)
storyblokVersionOfUngrouped(dev, mode) ==
  IF dev THEN "true" ELSE IF mode = "development" THEN "draft" ELSE "published"

\* a faulty variant: only the dev server counts as development
isDevelopmentDevOnly == DEV

isDevelopment == DEV \/ MODE = "development"

getStoryblokVersion == IF isDevelopment THEN "draft" ELSE "published"

\* the copy of the helper in the standalone file:
\* a || b ? x : y is (a || b) ? x : y
storyblokVersionOf(dev, mode) == IF dev \/ mode = "development" THEN "draft" ELSE "published"

\* the standalone copy reads import.meta.env
getStoryblokVersionCopy == storyblokVersionOf(DEV, MODE)

\* the end of utils/jsonld.ts is an unresolved merge: between the markers
\* <<<<<<< HEAD, ======= and >>>>>>> ed2f3cf stand two definitions of the
\* export.  With the markers in it the text does not parse, so the export as
\* committed cannot be loaded or called
jsonldGetStoryblokVersion == Threw("SyntaxError")

\* the definition on each side of the merge, taken alone
jsonldVersionHead == IF DEV \/ MODE = "development" THEN "draft" ELSE "published"

jsonldVersionIncoming == IF DEV \/ MODE = "development" THEN "draft" ELSE "published"

-----------------------------------------------------------------------------
(* Build configuration: astro.config *)

\* the values process.env.ENABLE_STORYBLOK_BRIDGE takes: unset, or a string
BridgeValues == {Undef, Str(<<"true">>), Str(<<"false">>), Str(<<"TRUE">>)}

\* process.env.ENABLE_STORYBLOK_BRIDGE === "true"
enableBridge(v) == v = Str(<<"true">>)

\* const outputMode is declared twice in one scope (with the same
\* initializer, enableBridge ? "server" : "static"): an early error, raised
\* before any statement of the file runs, whatever the variable holds
outputMode(v) == Threw("SyntaxError")

\* adapter: outputMode !== "static" ? cloudflare() : undefined
adapter(mode) == IF mode # Str(<<"static">>) THEN Str(<<"cloudflare()">>) ELSE Undef

\* plugins: [tailwindcss(), ...(enableBridge ? [mkcert()] : [])]
vitePlugins(v) == <<"tailwindcss()">> \o (IF enableBridge(v) THEN <<"mkcert()">> ELSE <<>>)

\* the parts of defineConfig's argument that follow the variable
defineConfig(mode, v) ==
  [t |-> "config", output |-> mode, adapter |-> adapter(mode), bridge |-> enableBridge(v),
   plugins |-> vitePlugins(v)]

\* what loading the configuration file gives: the configuration object, or
\* the error that stops the load
astroConfig(v) ==
  IF outputMode(v).t = "throw" THEN outputMode(v) ELSE defineConfig(outputMode(v), v)

-----------------------------------------------------------------------------
(* Page fetches: the storyblokApi.get calls of the pages and the layout *)

\* the paths requested with a version: the home page, the global stories of
\* the layout and of the footer component, the list of posts, and a post by
\* its slug (`cdn/stories/blog/${slug}`)
PagePaths ==
  {"cdn/stories/home", "cdn/stories/global/seo", "cdn/stories/global/header",
   "cdn/stories/global/footer", "cdn/stories/global/social-media", "cdn/stories",
   "cdn/stories/blog/my-post", "cdn/stories/blog/post-a"}

\* the paths requested without options: the home page of the related-content
\* and the debugging examples, and a related story by its id
\* (`cdn/stories/${id}`)
PlainPaths == {"cdn/stories/home", "cdn/stories/abc-1"}

\* a faulty variant: the version follows the Bridge setting
pageVersionByBridge ==
  IF enableBridge(ENABLE_STORYBLOK_BRIDGE) THEN "draft" ELSE "published"

\* a faulty variant: the version is written out in the call
pageVersionHardcoded == "published"

\* version: getStoryblokVersion()
pageVersion == getStoryblokVersion

\* the request of a page fetch; the list of posts also names its content type
pageRequest(path) ==
  [path |-> path,
   content_type |-> IF path = "cdn/stories" THEN "blogPost" ELSE "",
   version |-> pageVersion]

\* storyblokApi.get(path): a request without a version parameter
plainRequest(path) == [path |-> path, content_type |-> "", version |-> ""]

PageRequests ==
  {pageRequest(path) : path \in PagePaths} \cup {plainRequest(path) : path \in PlainPaths}

-----------------------------------------------------------------------------
(* pages/rss.xml.js *)

\* a faulty variant: the feed follows the build mode like the page fetches do
rssVersionByMode == getStoryblokVersion

\* the version parameter of the feed's request
rssVersion == "published"

rssRequest == [path |-> "cdn/stories", content_type |-> "blogPost", version |-> rssVersion]

\* `${v}` inside a template literal
templateString(v) ==
  CASE v.t = "string" -> v.s
    [] v.t = "undefined" -> <<"undefined">>
    [] v.t = "null" -> <<"null">>

\* new Date(v): the time value in minutes since the epoch for the date strings
\* of the model; new Date(null) is the epoch; anything else is an Invalid Date
newDate(v) ==
  CASE v = Str(<<"2024-01-15T10:00:00.000Z">>) -> [t |-> "date", valid |-> TRUE, minutes |-> 28421880]
    [] v = Str(<<"2023-06-01T08:30:00.000Z">>) -> [t |-> "date", valid |-> TRUE, minutes |-> 28093470]
    [] v = Null -> [t |-> "date", valid |-> TRUE, minutes |-> 0]
    [] OTHER -> [t |-> "date", valid |-> FALSE, minutes |-> 0]

\* a faulty variant: the title is taken from the slug
feedItemTitleFromSlug(post) ==
  IF Get(post, "content").t \in {"undefined", "null"} THEN Threw("TypeError")
  ELSE Obj(<<P("title", Get(post, "slug")),
             P("pubDate", newDate(Get(post, "published_at"))),
             P("description", Get(Get(post, "content"), "description")),
             P("link", Str(<<"/blog/">> \o templateString(Get(post, "slug")) \o <<"/">>))>>)

\* the callback of data.stories.map; post.content.description throws when the
\* story has no content object
feedItem(post) ==
  IF Get(post, "content").t \in {"undefined", "null"} THEN Threw("TypeError")
  ELSE Obj(<<P("title", Get(post, "name")),
             P("pubDate", newDate(Get(post, "published_at"))),
             P("description", Get(Get(post, "content"), "description")),
             P("link", Str(<<"/blog/">> \o templateString(Get(post, "slug")) \o <<"/">>))>>)

\* data.stories.map(callback): one entry per story, in order
feedItems(stories) == [i \in DOMAIN stories.a |-> feedItem(stories.a[i])]

Site == Str(<<"https:", "//", "tufancalisir.de">>)

\* a faulty variant: a story without a content object is left out of the feed
rssCallSkipping(data) ==
  LET kept == SelectSeq(Get(data, "stories").a,
                        LAMBDA post : Get(post, "content").t \notin {"undefined", "null"})
  IN Obj(<<P("title", Str(<<"Tufan Calisir - Frontend Entwickler aus Hamburg">>)),
           P("description", Str(<<"Aktuelle Blog Posts von Tufan Calisir">>)),
           P("site", Site),
           P("items", Arr(feedItems(Arr(kept))))>>)

\* the part of GET after the await: the argument handed to rss(), or the
\* exception that rejects GET
rssCall(data) ==
  LET items == feedItems(Get(data, "stories"))
  IN IF \E i \in DOMAIN items : items[i].t = "throw" THEN Threw("TypeError")
     ELSE Obj(<<P("title", Str(<<"Tufan Calisir - Frontend Entwickler aus Hamburg">>)),
                P("description", Str(<<"Aktuelle Blog Posts von Tufan Calisir">>)),
                P("site", Site),
                P("items", Arr(items))>>)

\* rss() belongs to the package @astrojs/rss: the Response its promise
\* resolves with stands for the feed document built from the options
rssResponse(options) == Obj(<<P("status", Num(200)), P("feed", options)>>)

-----------------------------------------------------------------------------
(* Image Derivation Engine: utils/optimizeImage.ts, which the guide documents *)
(* and uses.  Its two functions are modelled from the specification (4.1):    *)
(* a URL is a token sequence, the transformation segment is                   *)
(* "/m/" [W "x" H "/"] ["filters" [":format(" f ")"] [":quality(" q ")"]].    *)
(* An aspect ratio is the rational num/den with den > 0.                      *)

Ratio(num, den) == [t |-> "ratio", num |-> num, den |-> den]

\* the input is an absolute URL: a scheme, and for http(s) a host
isAbsoluteAssetUrl(url) == url.t = "string" /\ ParseAbsolute(url.s).ok

\* width or height when one of them is absent
orZero(v) == IF v.t = "number" THEN v.n ELSE 0

\* a faulty variant: the geometry is always written, 0x0 when none is asked
dimensionSegmentAlways(opts) ==
  NumToJson(orZero(Get(opts, "width"))) \o <<"x">>
  \o NumToJson(orZero(Get(opts, "height"))) \o <<"/">>

\* "WxH/", left out when neither width nor height is given
dimensionSegment(opts) ==
  IF Get(opts, "width").t = "undefined" /\ Get(opts, "height").t = "undefined"
  THEN <<>>
  ELSE NumToJson(orZero(Get(opts, "width"))) \o <<"x">>
       \o NumToJson(orZero(Get(opts, "height"))) \o <<"/">>

\* "filters:format(f):quality(q)" with the filters that are given
filterSegment(opts) ==
  LET format == Get(opts, "format")
      quality == Get(opts, "quality")
  IN IF format.t = "undefined" /\ quality.t = "undefined" THEN <<>>
     ELSE <<"filters">>
          \o (IF format.t = "undefined" THEN <<>> ELSE <<":format(">> \o format.s \o <<")">>)
          \o (IF quality.t = "undefined" THEN <<>>
              ELSE <<":quality(">> \o NumToJson(quality.n) \o <<")">>)

\* the single-image transform
optimizeStoryblokImage(url, opts) ==
  IF ~isAbsoluteAssetUrl(url) THEN Threw("ValidationError")
  ELSE Str(url.s \o <<"/m/">> \o dimensionSegment(opts) \o filterSegment(opts))

\* a faulty variant: round down
roundRatioDown(w, r) == (w * r.den) \div r.num

\* round(w / r) for r = num/den > 0: the nearest integer, a half goes up
roundRatio(w, r) == (2 * w * r.den + r.num) \div (2 * r.num)

\* a faulty variant: a repeated breakpoint is accepted
validBreakpointsWithRepeats(b) ==
  /\ b.t = "array"
  /\ b.a # <<>>
  /\ \A i \in DOMAIN b.a : b.a[i].t = "number" /\ b.a[i].n > 0

\* the breakpoint list is not empty and holds positive, pairwise different
\* widths
validBreakpoints(b) ==
  /\ b.t = "array"
  /\ b.a # <<>>
  /\ \A i \in DOMAIN b.a : b.a[i].t = "number" /\ b.a[i].n > 0
  /\ \A i, j \in DOMAIN b.a : i # j => b.a[i] # b.a[j]

validAspectRatio(r) == r.t = "ratio" /\ r.num > 0

\* the widths in ascending order
RECURSIVE ascending(_)
ascending(ws) ==
  IF ws = {} THEN <<>>
  ELSE LET least == CHOOSE w \in ws : \A v \in ws : w <= v
       IN <<least>> \o ascending(ws \ {least})

\* the candidate of one breakpoint: the transform at width w and height
\* round(w / r), with the WebP conversion the utility adds
candidate(url, w, r) ==
  LET u == optimizeStoryblokImage(url,
             Obj(<<P("width", Num(w)), P("height", Num(roundRatio(w, r))),
                   P("format", Str(<<"webp">>))>>))
  IN IF u.t = "throw" THEN u ELSE Obj(<<P("url", u), P("width", Num(w))>>)

\* the responsive descriptor build.  It returns { src, srcset, sizes }: src is
\* the specification's primaryUrl, srcset holds its candidates (each a url
\* with its width descriptor), sizes is the string the caller passed
generateResponsiveImageData(url, options) ==
  LET b == Get(options, "breakpoints")
      r == Get(options, "aspectRatio")
  IN IF ~validBreakpoints(b) \/ ~validAspectRatio(r) THEN Threw("ConfigurationError")
     ELSE LET widths == ascending({b.a[i].n : i \in DOMAIN b.a})
              candidates == [i \in DOMAIN widths |-> candidate(url, widths[i], r)]
          IN IF ~isAbsoluteAssetUrl(url) THEN Threw("ValidationError")
             ELSE Obj(<<P("src", Get(candidates[Len(candidates)], "url")),
                        P("srcset", Arr(candidates)),
                        P("sizes", Get(options, "sizes"))>>)

-----------------------------------------------------------------------------
(* Extracting anchor ids from rich text *)

isHeading(item) == Get(item, "type") = Str(<<"heading">>)

\* marks?.find((mark) => mark.type === "anchor")
findAnchorMark(marks) ==
  IF marks.t # "array" THEN Undef
  ELSE LET hits == SelectSeq(marks.a, LAMBDA m : Get(m, "type") = Str(<<"anchor">>))
       IN IF hits = <<>> THEN Undef ELSE hits[1]

\* the callback of the map over the headings
anchorEntry(heading) ==
  LET first == OptIdx(OptGet(heading, "content"), 0)
      anchorMark == findAnchorMark(OptGet(first, "marks"))
  IN Obj(<<P("id", OptGet(OptGet(anchorMark, "attrs"), "id")),
           P("text", OptGet(first, "text"))>>)

\* .filter((anchorId) => anchorId !== null && anchorId !== undefined)
keepEntry(anchorId) == anchorId.t # "null" /\ anchorId.t # "undefined"

\* a faulty variant: an entry whose id an earlier entry already has is dropped
headlineAnchorIdsUnique(blok) ==
  LET content == Get(Get(blok, "copy"), "content")
  IN IF content.t \in {"undefined", "null"} THEN Arr(<<>>)
     ELSE LET headings == SelectSeq(content.a, isHeading)
              mapped == [i \in DOMAIN headings |-> anchorEntry(headings[i])]
              firsts == {i \in DOMAIN mapped :
                           \A j \in 1..(i - 1) : Get(mapped[j], "id") # Get(mapped[i], "id")}
          IN Arr(SelectSeq([i \in DOMAIN mapped |->
                              IF i \in firsts THEN mapped[i] ELSE Undef], keepEntry))

headlineAnchorIds(blok) ==
  LET content == Get(Get(blok, "copy"), "content")
  IN IF content.t \in {"undefined", "null"} THEN Arr(<<>>)
     ELSE LET headings == SelectSeq(content.a, isHeading)
              mapped == [i \in DOMAIN headings |-> anchorEntry(headings[i])]
          IN Arr(SelectSeq(mapped, keepEntry))

-----------------------------------------------------------------------------
(* components Select: the React form select.  A rendered element is the     *)
(* object of its attributes; the component's output is the object of its     *)
(* children: label, select, options, error and helper.                       *)

\* String(v) inside a template literal
templateText(v) ==
  CASE v.t = "undefined" -> <<"undefined">>
    [] v.t = "null" -> <<"null">>
    [] OTHER -> v.s

\* a ?? b
nullish(a, b) == IF a.t \in {"undefined", "null"} THEN b ELSE a

\* a || b
orElse(a, b) == IF Truthy(a) THEN a ELSE b

\* a && b
andThen(a, b) == IF Truthy(a) THEN b ELSE a

\* { ...target, ...source }: a later key replaces the value of an earlier one
RECURSIVE spread(_, _)
spread(target, source) ==
  IF source = <<>> THEN target
  ELSE spread(SetKey(target, Head(source).k, Head(source).v), Tail(source))

\* everything the destructuring of the parameter does not name
RestKeys == {"name", "aria-describedby", "aria-invalid"}

restProps(props) == SelectSeq(props.o, LAMBDA e : e.k \in RestKeys)

selectId(props) == orElse(Get(props, "id"), Get(props, "name"))

\* a faulty variant: the default value is handed on next to a value
selectDefaultValueAlways(value, defaultValue) == nullish(defaultValue, Str(<<>>))

selectValue(value) == IF value.t # "undefined" THEN value ELSE Undef

selectDefaultValue(value, defaultValue) ==
  IF value.t = "undefined" THEN nullish(defaultValue, Str(<<>>)) ELSE Undef

ariaInvalid(error) == IF Truthy(error) THEN Str(<<"true">>) ELSE Str(<<"false">>)

ariaDescribedby(id, error, helperText) ==
  IF Truthy(error) THEN Str(templateText(id) \o <<"-error">>)
  ELSE IF Truthy(helperText) THEN Str(templateText(id) \o <<"-helper">>)
  ELSE Undef

selectClassName(error, className) ==
  Str(<<"select select-bordered w-full ">>
      \o (IF Truthy(error) THEN <<"select-error">> ELSE <<>>)
      \o <<" ">> \o className.s)

optionElement(option) ==
  Obj(<<P("key", Get(option, "value")),
        P("value", Get(option, "value")),
        P("disabled", Get(option, "disabled")),
        P("children", Get(option, "label"))>>)

placeholderOption(placeholder) ==
  Obj(<<P("disabled", Bool(TRUE)), P("value", Str(<<>>)), P("children", placeholder)>>)

Select(props) ==
  LET label == Get(props, "label")
      error == Get(props, "error")
      helperText == Get(props, "helperText")
      options == Get(props, "options")
      placeholder == IF Get(props, "placeholder").t = "undefined"
                     THEN Str(<<"Bitte w", "ae", "hlen...">>)
                     ELSE Get(props, "placeholder")
      className == IF Get(props, "className").t = "undefined"
                   THEN Str(<<>>)
                   ELSE Get(props, "className")
      id == selectId(props)
      value == Get(props, "value")
      defaultValue == Get(props, "defaultValue")
      select ==
        spread(Obj(<<P("id", id),
                     P("className", selectClassName(error, className)),
                     P("aria-invalid", ariaInvalid(error)),
                     P("aria-describedby", ariaDescribedby(id, error, helperText)),
                     P("value", selectValue(value)),
                     P("defaultValue", selectDefaultValue(value, defaultValue))>>),
               restProps(props))
  IN Obj(<<P("label", andThen(label, Obj(<<P("htmlFor", id), P("children", label)>>))),
           P("select", select),
           P("options",
             Arr(<<placeholderOption(placeholder)>>
                 \o [i \in DOMAIN options.a |-> optionElement(options.a[i])])),
           P("error",
             andThen(error,
                     Obj(<<P("id", Str(templateText(id) \o <<"-error">>)),
                           P("children", error)>>))),
           P("helper",
             IF Truthy(helperText)
             THEN IF Truthy(error) THEN Bool(FALSE)
                  ELSE Obj(<<P("id", Str(templateText(id) \o <<"-helper">>)),
                             P("children", helperText)>>)
             ELSE helperText)>>)

-----------------------------------------------------------------------------
(* Inputs *)

MaxItems == 2

MaxStories == 2

MaxNodes == 3

MaxGraph == 2

\* the sequences over S of length at most n
SeqsUpTo(S, n) == UNION {[1..k -> S] : k \in 0..n}

\* an object literal that leaves out the properties given as undefined
Lit(pairs) == Obj(SelectSeq(pairs, LAMBDA p : p.v.t # "undefined"))

\* an optional string field: not supplied, supplied empty, supplied
Opt(s) == {Undef, Str(<<>>), Str(s)}

Modes == {"development", "production", "staging"}

Base == <<"https:", "//", "h.de">>

PersonInputs ==
  {Lit(<<P("name", Str(n)), P("url", Str(u)), P("jobTitle", j), P("description", d),
         P("image", i), P("sameAs", sa)>>) :
     n \in {<<>>, <<"Tufan">>, <<"T", Quote, "C", Backslash>>},
     u \in {<<>>, Base},
     j \in Opt(<<"Frontend Developer">>),
     d \in Opt(<<"About ", Quote, "me", Quote>>),
     i \in Opt(Base \o <<"/", "me.jpg">>),
     sa \in {Undef, Arr(<<>>), Arr(<<Str(<<"https:", "//", "github.com", "/", "tufancal">>)>>)}}

WebsiteInputs ==
  {Lit(<<P("name", Str(n)), P("url", Str(u)), P("description", d),
         P("publisherName", pn), P("publisherUrl", pu)>>) :
     n \in {<<>>, <<"tufancalisir.de">>, <<"<", "/", "script", ">">>},
     u \in {<<>>, Base},
     d \in Opt(<<"Portfolio">>),
     pn \in Opt(<<"Tufan">>),
     pu \in Opt(Base)}

BlogPostInputs ==
  {Lit(<<P("headline", Str(h)), P("description", Str(<<"A post">>)),
         P("authorName", Str(<<"Tufan">>)), P("authorUrl", au),
         P("datePublished", Str(<<"2024-01-15">>)), P("dateModified", dm),
         P("url", Str(u)), P("image", i), P("publisherName", pn), P("publisherUrl", pu)>>) :
     h \in {<<>>, <<"Hello ", Backslash, "n">>},
     u \in {<<>>, Base \o <<"/", "blog", "/", "a">>},
     au \in Opt(Base),
     dm \in Opt(<<"2024-02-01">>),
     i \in Opt(Base \o <<"/", "a.jpg">>),
     pn \in Opt(<<"Tufan">>),
     pu \in Opt(Base)}

UrlPool ==
  {Undef, Str(<<>>), Str(<<"/", "blog">>), Str(<<"..", "/", "a">>),
   Str(<<"https:", "//", "h.de", "/", "a">>), Str(<<"http:", "//", "h.de">>),
   Str(<<"HTTP:", "//", "H.DE", "/", "a">>), Str(<<"//", "cdn.de", "/", "a">>),
   Str(<<"//">>)}

BreadcrumbItems ==
  {Lit(<<P("name", Str(<<"Home">>)), P("url", u)>>) : u \in UrlPool}
  \cup {Lit(<<P("name", Str(<<"Blog">>))>>)}

BasePool ==
  {Undef, Str(<<>>), Str(Base), Str(Base \o <<"/", "dir", "/", "page">>), Str(<<"nope">>)}

SampleSchemas ==
  {createPersonSchema(Lit(<<P("name", Str(<<"Tufan">>)), P("url", Str(Base))>>)),
   createWebsiteSchema(Lit(<<P("name", Str(<<"Site">>)), P("url", Str(Base)),
                             P("publisherName", Str(<<"T", Quote>>))>>)),
   createBreadcrumbSchema(Arr(<<Lit(<<P("name", Str(<<"Home">>)),
                                      P("url", Str(<<"/", "blog">>))>>)>>), Str(Base))}

Story(name, published_at, content, slug) ==
  Lit(<<P("name", name), P("published_at", published_at), P("content", content),
        P("slug", slug)>>)

StoryPool ==
  {Story(Str(<<"Post A">>), Str(<<"2024-01-15T10:00:00.000Z">>),
         Obj(<<P("description", Str(<<"About A">>))>>), Str(<<"post-a">>)),
   Story(Str(<<"Post B">>), Str(<<"2023-06-01T08:30:00.000Z">>),
         Obj(<<P("description", Str(<<"About B">>))>>), Str(<<"post-b">>)),
   Story(Str(<<"Post C">>), Str(<<"soon">>), Obj(<<>>), Str(<<"post-c">>)),
   Story(Str(<<>>), Null, Obj(<<P("description", Str(<<>>))>>), Str(<<>>)),
   Story(Str(<<"Post D">>), Str(<<"2024-01-15T10:00:00.000Z">>), Undef, Str(<<"post-d">>))}

AnchorMark(id) == Obj(<<P("type", Str(<<"anchor">>)), P("attrs", Obj(<<P("id", Str(id))>>))>>)

BoldMark == Obj(<<P("type", Str(<<"bold">>))>>)

TextNode(text, marks) ==
  Lit(<<P("type", Str(<<"text">>)), P("text", Str(text)), P("marks", marks)>>)

Heading(children) == Lit(<<P("type", Str(<<"heading">>)), P("content", children)>>)

NodePool ==
  {Lit(<<P("type", Str(<<"paragraph">>)),
         P("content", Arr(<<TextNode(<<"Body">>, Arr(<<AnchorMark(<<"p1">>)>>))>>))>>),
   Heading(Arr(<<TextNode(<<"Intro">>, Arr(<<AnchorMark(<<"a1">>)>>))>>)),
   Heading(Arr(<<TextNode(<<"Middle">>, Undef)>>)),
   Heading(Arr(<<TextNode(<<"End">>, Arr(<<BoldMark, AnchorMark(<<"a2">>)>>))>>)),
   Heading(Arr(<<TextNode(<<"Again">>, Arr(<<AnchorMark(<<"a1">>)>>))>>)),
   Heading(Arr(<<TextNode(<<"Plain">>, Arr(<<BoldMark>>)),
                 TextNode(<<"Late">>, Arr(<<AnchorMark(<<"a3">>)>>))>>)),
   Heading(Undef)}

Blok(content) == Obj(<<P("copy", Lit(<<P("type", Str(<<"doc">>)), P("content", content)>>))>>)

BlokInputs == {Blok(Undef)} \cup {Blok(Arr(c)) : c \in SeqsUpTo(NodePool, MaxNodes)}

MaxBreakpoints == 3

AssetUrl == Str(<<"https:", "//", "a.storyblok.com", "/", "f", "/", "1", "/", "img.jpg">>)

RelativeAssetUrl == Str(<<"/", "f", "/", "1", "/", "img.jpg">>)

AssetUrls == {AssetUrl, RelativeAssetUrl, Str(<<"a.storyblok.com", "/", "img.jpg">>), Str(<<>>)}

TransformOptions ==
  {Lit(<<P("width", w), P("height", h), P("quality", q), P("format", f)>>) :
     w \in {Undef, Num(800)},
     h \in {Undef, Num(400)},
     q \in {Undef, Num(80)},
     f \in {Undef, Str(<<"webp">>)}}

BreakpointWidths == {-3, 0, 3, 8, 240}

AspectRatios == {Ratio(3, 2), Ratio(16, 9), Ratio(2, 1), Ratio(0, 1), Ratio(-3, 2)}

\* sizes is one string, a comma-separated list of media conditions
SizeHints ==
  {Str(<<"(max-width: 640px) 100vw", ", ", "(max-width: 1024px) 50vw", ", ", "400px">>),
   Str(<<"100vw">>)}

ResponsiveOptions ==
  {Obj(<<P("breakpoints", Arr([i \in DOMAIN b |-> Num(b[i])])), P("aspectRatio", r),
         P("sizes", sizes)>>) :
     b \in SeqsUpTo(BreakpointWidths, MaxBreakpoints), r \in AspectRatios,
     sizes \in SizeHints}

\* props of Select: a value and a default value, each absent, '' or a
\* choice; an error and a helper text, each absent, '' or a text; an id or
\* only a name; and attributes of the select element handed through
SelectOptions ==
  Arr(<<Obj(<<P("value", Str(<<"de">>)), P("label", Str(<<"Deutschland">>))>>),
        Obj(<<P("value", Str(<<"at">>)), P("label", Str(<<"Austria">>)),
              P("disabled", Bool(TRUE))>>)>>)

Supplied(k, v) == IF v.t = "undefined" THEN <<>> ELSE <<P(k, v)>>

SelectPassedOn ==
  { <<>>,
    <<P("name", Str(<<"land">>))>>,
    <<P("aria-describedby", Str(<<"hint">>))>>,
    <<P("name", Str(<<"land">>)), P("aria-invalid", Str(<<"true">>))>> }

SelectInputs ==
  { Obj(Supplied("id", id) \o Supplied("label", label) \o Supplied("error", error)
        \o Supplied("helperText", helperText) \o <<P("options", SelectOptions)>>
        \o Supplied("value", value) \o Supplied("defaultValue", defaultValue) \o passedOn) :
      id \in {Undef, Str(<<"sel">>)},
      label \in {Undef, Str(<<"Land">>)},
      error \in {Undef, Str(<<>>), Str(<<"Pflichtfeld">>)},
      helperText \in {Undef, Str(<<>>), Str(<<"Hinweis">>)},
      value \in {Undef, Str(<<>>), Str(<<"de">>)},
      defaultValue \in {Undef, Str(<<>>), Str(<<"at">>)},
      passedOn \in SelectPassedOn }

-----------------------------------------------------------------------------
(* The state machine: one render context.  pc is its position: "idle"       *)
(* before a call, "returned" after a synchronous call, "serialized" after   *)
(* schemaToJson, "requested" after a page fetch was sent, and "fetching" /  *)
(* "fetched" / "rssCalled" / "done" along GET.                              *)

NoFetch == [path |-> "", content_type |-> "", version |-> ""]

Init ==
  /\ DEV \in BOOLEAN
  /\ MODE \in Modes
  /\ ENABLE_STORYBLOK_BRIDGE \in BridgeValues
  /\ output = outputMode(ENABLE_STORYBLOK_BRIDGE)
  /\ config = astroConfig(ENABLE_STORYBLOK_BRIDGE)
  /\ pc = "idle"
  /\ op = "none"
  /\ args = <<>>
  /\ result = Undef
  /\ json = <<>>
  /\ fetch = NoFetch
  /\ rssCalls = <<>>

\* a synchronous call returns r
Returns(name, a, r) ==
  /\ pc' = "returned"
  /\ op' = name
  /\ args' = a
  /\ result' = r
  /\ UNCHANGED <<env, rssCalls, json, fetch>>

CallCreatePersonSchema ==
  /\ pc = "idle"
  /\ \E data \in PersonInputs :
       Returns("createPersonSchema", <<data>>, createPersonSchema(data))

CallCreateWebsiteSchema ==
  /\ pc = "idle"
  /\ \E data \in WebsiteInputs :
       Returns("createWebsiteSchema", <<data>>, createWebsiteSchema(data))

CallCreateBlogPostSchema ==
  /\ pc = "idle"
  /\ \E data \in BlogPostInputs :
       Returns("createBlogPostSchema", <<data>>, createBlogPostSchema(data))

CallCreateBreadcrumbSchema ==
  /\ pc = "idle"
  /\ \E items \in SeqsUpTo(BreadcrumbItems, MaxItems), baseUrl \in BasePool :
       Returns("createBreadcrumbSchema", <<Arr(items), baseUrl>>,
               createBreadcrumbSchema(Arr(items), baseUrl))

\* a page collects several schemas into one array (JSONLDSchema's array case)
BuildSchemaGraph ==
  /\ pc = "idle"
  /\ \E g \in SeqsUpTo(SampleSchemas, MaxGraph) : Returns("schemaGraph", <<>>, Arr(g))

SchemaOps ==
  {"createPersonSchema", "createWebsiteSchema", "createBlogPostSchema",
   "createBreadcrumbSchema", "schemaGraph"}

CallSchemaToJson ==
  /\ pc = "returned"
  /\ op \in SchemaOps
  /\ result.t # "throw"
  /\ pc' = "serialized"
  /\ json' = schemaToJson(result)
  /\ UNCHANGED <<env, rssCalls, op, args, result, fetch>>

CallHeadlineAnchorIds ==
  /\ pc = "idle"
  /\ \E blok \in BlokInputs :
       Returns("headlineAnchorIds", <<blok>>, headlineAnchorIds(blok))

CallOptimizeStoryblokImage ==
  /\ pc = "idle"
  /\ \E url \in AssetUrls, opts \in TransformOptions :
       Returns("optimizeStoryblokImage", <<url, opts>>, optimizeStoryblokImage(url, opts))

CallGenerateResponsiveImageData ==
  /\ pc = "idle"
  /\ \E url \in {AssetUrl, RelativeAssetUrl}, options \in ResponsiveOptions :
       Returns("generateResponsiveImageData", <<url, options>>,
               generateResponsiveImageData(url, options))

\* env.ts: getStoryblokVersion()
CallGetStoryblokVersion ==
  /\ pc = "idle"
  /\ Returns("getStoryblokVersion", <<>>, Str(<<getStoryblokVersion>>))

\* the copy of the helper in the standalone file
CallGetStoryblokVersionCopy ==
  /\ pc = "idle"
  /\ Returns("standalone.getStoryblokVersion", <<>>, Str(<<getStoryblokVersionCopy>>))

\* the export of utils/jsonld.ts as committed
CallJsonldGetStoryblokVersion ==
  /\ pc = "idle"
  /\ Returns("jsonld.getStoryblokVersion", <<>>, jsonldGetStoryblokVersion)

\* the export of utils/jsonld.ts once the merge is resolved to its HEAD side
CallJsonldVersionHead ==
  /\ pc = "idle"
  /\ Returns("jsonld.getStoryblokVersion (HEAD)", <<>>, Str(<<jsonldVersionHead>>))

\* the export of utils/jsonld.ts once the merge is resolved to its other side
CallJsonldVersionIncoming ==
  /\ pc = "idle"
  /\ Returns("jsonld.getStoryblokVersion (ed2f3cf)", <<>>, Str(<<jsonldVersionIncoming>>))

RenderSelect ==
  /\ pc = "idle"
  /\ \E props \in SelectInputs : Returns("Select", <<props>>, Select(props))

\* a page, the layout or a component sends one of its requests
PageFetch ==
  /\ pc = "idle"
  /\ \E request \in PageRequests :
       /\ pc' = "requested"
       /\ op' = "pageFetch"
       /\ fetch' = request
  /\ UNCHANGED <<env, rssCalls, args, result, json>>

\* GET up to its await: the request is sent
GETStart ==
  /\ pc = "idle"
  /\ pc' = "fetching"
  /\ op' = "GET"
  /\ fetch' = rssRequest
  /\ UNCHANGED <<env, rssCalls, args, result, json>>

\* the CMS answers with a list of stories
FetchResolve ==
  /\ pc = "fetching"
  /\ \E stories \in SeqsUpTo(StoryPool, MaxStories) :
       args' = <<Obj(<<P("stories", Arr(stories))>>)>>
  /\ pc' = "fetched"
  /\ UNCHANGED <<env, rssCalls, op, result, json, fetch>>

\* the request fails: the await throws and GET rejects
FetchReject ==
  /\ pc = "fetching"
  /\ pc' = "done"
  /\ result' = Threw("FetchError")
  /\ UNCHANGED <<env, rssCalls, op, args, json, fetch>>

\* GET after its await: the stories are mapped; when the mapping throws, GET
\* rejects and rss() is not called.  Otherwise rss() is called with the feed
\* options (rssCalls lists the arguments of its calls): it either throws, and
\* GET rejects at once, or returns a promise GET resolves with, and GET stays
\* pending until that promise settles
GETBuild ==
  /\ pc = "fetched"
  /\ LET call == rssCall(args[1])
     IN IF call.t = "throw"
        THEN /\ pc' = "done"
             /\ result' = call
             /\ rssCalls' = rssCalls
        ELSE /\ rssCalls' = Append(rssCalls, call)
             /\ \/ pc' = "rssCalled" /\ result' = result
                \/ pc' = "done" /\ result' = Threw("RssError")
  /\ UNCHANGED <<env, op, args, json, fetch>>

\* the promise of rss() resolves with the feed's Response, and GET with it
RssResolve ==
  /\ pc = "rssCalled"
  /\ pc' = "done"
  /\ result' = rssResponse(rssCalls[Len(rssCalls)])
  /\ UNCHANGED <<env, rssCalls, op, args, json, fetch>>

\* the promise of rss() rejects, and GET with it
RssReject ==
  /\ pc = "rssCalled"
  /\ pc' = "done"
  /\ result' = Threw("RssError")
  /\ UNCHANGED <<env, rssCalls, op, args, json, fetch>>

Next ==
  \/ CallCreatePersonSchema
  \/ CallCreateWebsiteSchema
  \/ CallCreateBlogPostSchema
  \/ CallCreateBreadcrumbSchema
  \/ BuildSchemaGraph
  \/ CallSchemaToJson
  \/ CallHeadlineAnchorIds
  \/ CallOptimizeStoryblokImage
  \/ CallGenerateResponsiveImageData
  \/ CallGetStoryblokVersion
  \/ CallGetStoryblokVersionCopy
  \/ CallJsonldGetStoryblokVersion
  \/ CallJsonldVersionHead
  \/ CallJsonldVersionIncoming
  \/ RenderSelect
  \/ PageFetch
  \/ GETStart
  \/ FetchResolve
  \/ FetchReject
  \/ GETBuild
  \/ RssResolve
  \/ RssReject

Spec == Init /\ [][Next]_vars

-----------------------------------------------------------------------------
(* Claims about the schema constructors *)

Returned(name) == pc \in {"returned", "serialized"} /\ op = name

\* the elements of a breadcrumb result carry positions 1..n and the input
\* names, in input order
PositionsInOrder(items, r) ==
  LET els == Get(r, "itemListElement")
  IN /\ els.t = "array"
     /\ Len(els.a) = Len(items.a)
     /\ \A i \in DOMAIN items.a :
          /\ Get(els.a[i], "position") = Num(i)
          /\ Get(els.a[i], "name") = Get(items.a[i], "name")

\* new URL is called for some item: a baseUrl is given and the item's url is
\* one the code does not leave alone
CallsNewURL(items, baseUrl) ==
  /\ Truthy(baseUrl)
  /\ \E i \in DOMAIN items.a :
       Truthy(Get(items.a[i], "url")) /\ ~keepsUrl(Get(items.a[i], "url").s)

\* C1 as stated: for every item list and every baseUrl, createBreadcrumbSchema
\* returns exactly n elements with positions 1..n and the input names in order.
C1_AlwaysReturnsPositions ==
  Returned("createBreadcrumbSchema") =>
    result.t = "object" /\ PositionsInOrder(args[1], result)

\* C1 (amended): unless createBreadcrumbSchema raises, which it does only when
\* new URL rejects an item url or the baseUrl it is resolved against, it
\* returns exactly n elements whose positions are 1..n and whose names are the
\* input names in the same order, whichever items carry a url and also when
\* two items are equal.
C1_PositionsInInputOrder ==
  Returned("createBreadcrumbSchema") =>
    IF result.t = "throw"
    THEN result = Threw("TypeError") /\ CallsNewURL(args[1], args[2])
    ELSE result.t = "object" /\ PositionsInOrder(args[1], result)

\* two equal items with the same relative url: both are kept, at positions 1, 2
C1_Witness ==
  /\ Returned("createBreadcrumbSchema")
  /\ result.t = "object"
  /\ Len(args[1].a) = 2
  /\ args[1].a[1] = args[1].a[2]
  /\ Truthy(Get(args[1].a[1], "url"))
  /\ Truthy(args[2])
  /\ Get(Get(result, "itemListElement").a[2], "position") = Num(2)

\* the input fields each constructor requires
RequiredFields(name) ==
  CASE name = "createPersonSchema" -> {"name", "url"}
    [] name = "createWebsiteSchema" -> {"name", "url"}
    [] name = "createBlogPostSchema" ->
         {"headline", "description", "authorName", "datePublished", "url"}

\* the call supplied the required fields and nothing else
RequiredOnly ==
  IF op = "createBreadcrumbSchema"
  THEN /\ args[2] = Undef
       /\ \A i \in DOMAIN args[1].a : Keys(args[1].a[i]) = {"name"}
  ELSE Keys(args[1]) = RequiredFields(op)

\* the keys the schema types declare without "?"
RequiredKeys(name) ==
  CASE name = "createPersonSchema" -> {"@context", "@type", "name", "url"}
    [] name = "createWebsiteSchema" -> {"@context", "@type", "name", "url"}
    [] name = "createBlogPostSchema" ->
         {"@context", "@type", "headline", "description", "author", "datePublished", "url"}
    [] name = "createBreadcrumbSchema" -> {"@context", "@type", "itemListElement"}

Constructors ==
  {"createPersonSchema", "createWebsiteSchema", "createBlogPostSchema",
   "createBreadcrumbSchema"}

ConstructorReturned == pc \in {"returned", "serialized"} /\ op \in Constructors

\* the nested objects of a required-only result hold their required keys only
NestedRequiredOnly ==
  /\ op = "createBlogPostSchema" => Keys(Get(result, "author")) = {"@type", "name"}
  /\ op = "createBreadcrumbSchema" =>
       \A i \in DOMAIN Get(result, "itemListElement").a :
         Keys(Get(result, "itemListElement").a[i]) = {"@type", "position", "name"}

\* C2 as stated: a constructor called with only its required fields returns an
\* object whose keys are exactly the required keys; no optional key appears.
C2_NoOptionalKey ==
  (ConstructorReturned /\ RequiredOnly) =>
    Keys(result) = RequiredKeys(op) /\ NestedRequiredOnly

\* C2 (amended): a constructor called with only its required fields returns an
\* object whose keys are exactly the required keys and the type tag, except
\* that createBlogPostSchema always adds mainEntityOfPage (derived from url);
\* no other optional key appears.
C2_RequiredKeysOnly ==
  (ConstructorReturned /\ RequiredOnly) =>
    /\ Keys(result) = RequiredKeys(op)
         \cup (IF op = "createBlogPostSchema" THEN {"mainEntityOfPage"} ELSE {})
    /\ NestedRequiredOnly

C2_Witness ==
  /\ Returned("createBlogPostSchema")
  /\ RequiredOnly
  /\ Get(Get(result, "mainEntityOfPage"), "@id") = Get(args[1], "url")

\* the optional output keys that mirror an optional input field:
\* <<constructor, path of the key in the result, input field>>
OptionalKeys ==
  {<<"createPersonSchema", <<"jobTitle">>, "jobTitle">>,
   <<"createPersonSchema", <<"description">>, "description">>,
   <<"createPersonSchema", <<"image">>, "image">>,
   <<"createPersonSchema", <<"sameAs">>, "sameAs">>,
   <<"createWebsiteSchema", <<"description">>, "description">>,
   <<"createWebsiteSchema", <<"publisher">>, "publisherName">>,
   <<"createWebsiteSchema", <<"publisher", "url">>, "publisherUrl">>,
   <<"createBlogPostSchema", <<"author", "url">>, "authorUrl">>,
   <<"createBlogPostSchema", <<"dateModified">>, "dateModified">>,
   <<"createBlogPostSchema", <<"image">>, "image">>,
   <<"createBlogPostSchema", <<"publisher">>, "publisherName">>,
   <<"createBlogPostSchema", <<"publisher", "url">>, "publisherUrl">>}

\* the value at a path of one or two keys; undefined when it is not there
AtPath(v, path) ==
  IF Len(path) = 1 THEN Get(v, path[1]) ELSE Get(Get(v, path[1]), path[2])

HasPath(v, path) ==
  IF Len(path) = 1 THEN HasKey(v, path[1])
  ELSE HasKey(v, path[1]) /\ HasKey(Get(v, path[1]), path[2])

\* null, undefined, the empty string, the empty list
IsEmptyValue(v) ==
  CASE v.t \in {"undefined", "null"} -> TRUE
    [] v.t = "string" -> v.s = <<>>
    [] v.t = "array" -> v.a = <<>>
    [] v.t = "object" -> v.o = <<>>
    [] OTHER -> FALSE

\* some key of v, at any depth, holds an empty value
RECURSIVE HoldsEmptyValue(_)
HoldsEmptyValue(v) ==
  CASE v.t = "object" ->
         \E i \in DOMAIN v.o : IsEmptyValue(v.o[i].v) \/ HoldsEmptyValue(v.o[i].v)
    [] v.t = "array" -> \E i \in DOMAIN v.a : HoldsEmptyValue(v.a[i])
    [] OTHER -> FALSE

\* the keys the schema types declare with "?"
DeclaredOptional(name) ==
  CASE name = "createPersonSchema" -> {"jobTitle", "description", "image", "sameAs"}
    [] name = "createWebsiteSchema" -> {"description", "publisher"}
    [] name = "createBlogPostSchema" ->
         {"dateModified", "image", "publisher", "mainEntityOfPage"}
    [] name = "createBreadcrumbSchema" -> {}

\* the input field behind an optional top-level key, "" when there is none
FieldOf(key) ==
  CASE key = "publisher" -> "publisherName"
    [] key = "mainEntityOfPage" -> ""
    [] OTHER -> key

\* C3 as stated: an optional output key is present only when the caller
\* supplied a value for its field, and no result holds a key whose value is
\* null, undefined or empty.
C3_NoEmptyValueAnywhere ==
  (ConstructorReturned /\ result.t = "object") =>
    /\ \A key \in DeclaredOptional(op) \cap Keys(result) :
         FieldOf(key) # "" /\ HasKey(args[1], FieldOf(key))
    /\ ~HoldsEmptyValue(result)

\* an item element has the item key only for a non-empty item url, and then the
\* key holds a non-empty string
ItemKeysSupplied ==
  \A i \in DOMAIN args[1].a :
    LET el == Get(result, "itemListElement").a[i]
    IN /\ HasKey(el, "item") => Truthy(Get(args[1].a[i], "url")) /\ Truthy(Get(el, "item"))
       /\ ~HasKey(args[1].a[i], "url") => ~HasKey(el, "item")

\* C3 (amended): an optional output key that mirrors an optional input field
\* is present only when the caller supplied a non-empty value for that field;
\* when the field is absent the key is entirely unset, so no such key ever
\* holds null, undefined or an empty value.  These keys are every
\* declared-optional key but mainEntityOfPage (which createBlogPostSchema
\* emits on every call), the nested url of author and publisher, and the item
\* key of a breadcrumb element (which mirrors the element's url).
C3_OptionalKeysOnlyWhenSupplied ==
  (ConstructorReturned /\ result.t = "object") =>
    IF op = "createBreadcrumbSchema" THEN ItemKeysSupplied
    ELSE \A e \in OptionalKeys :
           e[1] = op =>
             /\ HasPath(result, e[2]) =>
                  /\ Truthy(Get(args[1], e[3]))
                  /\ ~IsEmptyValue(AtPath(result, e[2]))
             /\ ~HasKey(args[1], e[3]) => ~HasPath(result, e[2])

\* optional fields supplied empty, and absent ones, next to supplied ones
C3_Witness ==
  /\ Returned("createPersonSchema")
  /\ Get(args[1], "jobTitle") = Str(<<>>)
  /\ Get(args[1], "sameAs") = Arr(<<>>)
  /\ ~HasKey(args[1], "image")
  /\ Truthy(Get(args[1], "description"))
  /\ Keys(result) = {"@context", "@type", "name", "url", "description"}

\* a URL string with a scheme is absolute; every other one is relative
IsAbsoluteUrl(u) == ParseAbsolute(u).ok

\* C4 (as stated): when an item has a url and a baseUrl is given, a relative
\* item url is emitted as its resolution against baseUrl and an absolute item
\* url is emitted unchanged, character for character.
C4_AbsoluteUrlUnchanged ==
  (Returned("createBreadcrumbSchema") /\ result.t = "object" /\ Truthy(args[2])) =>
    \A i \in DOMAIN args[1].a :
      LET url == Get(args[1].a[i], "url")
          emitted == Get(Get(result, "itemListElement").a[i], "item")
      IN Truthy(url) =>
           IF IsAbsoluteUrl(url.s) THEN emitted = url
           ELSE emitted = newURL(url.s, args[2].s)

\* C5: parsing the string schemaToJson returns for a schema value (the result
\* of a constructor, or an array of such results) yields a value deep-equal to
\* the schema value.
C5_JsonRoundTrip ==
  pc = "serialized" => DeepEqual(JSONparse(json), result)

\* a serialized schema one of whose strings holds a double quote and a
\* backslash, which the encoding has to escape
C5_Witness ==
  /\ pc = "serialized"
  /\ op = "createPersonSchema"
  /\ Get(result, "name") = Str(<<"T", Quote, "C", Backslash>>)
  /\ HasKey(result, "sameAs")
  /\ \E i \in DOMAIN json : json[i] = Backslash

\* an array of schemas, serialized
C5_WitnessGraph ==
  pc = "serialized" /\ op = "schemaGraph" /\ Len(result.a) = MaxGraph

-----------------------------------------------------------------------------
(* Claims about the RSS endpoint *)

\* GET has mapped a list of stories the fetch delivered
FeedDone == pc \in {"rssCalled", "done"} /\ op = "GET" /\ args # <<>>

\* the feed options GET handed to rss()
Feed == rssCalls[1]

Stories == Get(args[1], "stories").a

\* the feed holds one entry per story, the i-th from the i-th story, each
\* with a non-empty link around the story's slug
EntryPerStory ==
  /\ rssCalls # <<>>
  /\ Len(Get(Feed, "items").a) = Len(Stories)
  /\ \A i \in DOMAIN Stories :
       LET entry == Get(Feed, "items").a[i]
           link == Get(entry, "link")
       IN /\ Get(entry, "title") = Get(Stories[i], "name")
          /\ link.t = "string"
          /\ Len(link.s) >= 2
          /\ SubSeq(link.s, 2, Len(link.s) - 1) = templateString(Get(Stories[i], "slug"))

\* C6 (as stated): feed generation over any list of n story items yields
\* exactly n entries in the order of the input (the i-th entry from the i-th
\* story, none filtered out), each with a non-empty link derived from that
\* story's slug.
C6_AnyListYieldsEntries ==
  FeedDone => EntryPerStory

\* C7: each feed entry is built field by field from its own story: title is the
\* story's name, pubDate the parsed published_at, description the story's
\* content.description, link "/blog/" + slug + "/"; the entry of a story is the
\* one it gets in a feed of its own, whatever the other stories are.
C7_EntryFields ==
  (FeedDone /\ rssCalls # <<>>) =>
    \A i \in DOMAIN Stories :
      LET post == Stories[i]
          entry == Get(Feed, "items").a[i]
          alone == rssCall(Obj(<<P("stories", Arr(<<post>>))>>))
      IN /\ Keys(entry) = {"title", "pubDate", "description", "link"}
         /\ Get(entry, "title") = Get(post, "name")
         /\ Get(entry, "pubDate") = newDate(Get(post, "published_at"))
         /\ Get(entry, "description") = Get(Get(post, "content"), "description")
         /\ Get(entry, "link")
              = Str(<<"/blog/">> \o templateString(Get(post, "slug")) \o <<"/">>)
         /\ entry = Get(alone, "items").a[1]

\* "Post A" in second place: its entry carries its own four fields
C7_Witness ==
  /\ FeedDone
  /\ rssCalls # <<>>
  /\ Len(Stories) = 2
  /\ Get(Stories[1], "name") = Str(<<"Post B">>)
  /\ Get(Feed, "items").a[2] =
       Obj(<<P("title", Str(<<"Post A">>)),
             P("pubDate", [t |-> "date", valid |-> TRUE, minutes |-> 28421880]),
             P("description", Str(<<"About A">>)),
             P("link", Str(<<"/blog/", "post-a", "/">>))>>)

\* C8: in every build mode the feed's request asks for version "published".
C8_FeedRequestsPublished ==
  (op = "GET" /\ pc \in {"fetching", "fetched", "rssCalled", "done"}) =>
    fetch = [path |-> "cdn/stories", content_type |-> "blogPost", version |-> "published"]

\* the request is out in a build mode whose content version is "draft"
C8_Witness ==
  /\ op = "GET"
  /\ pc = "fetching"
  /\ getStoryblokVersion = "draft"
  /\ fetch.version = "published"

-----------------------------------------------------------------------------
(* Claims about the heading-anchor extraction *)

FirstChild(heading) == OptIdx(Get(heading, "content"), 0)

\* the id of the first anchor mark of the heading's first child; undefined
\* when there is no such mark or it has no id
AnchorIdOf(heading) ==
  LET marks == Get(FirstChild(heading), "marks")
      anchors == IF marks.t = "array"
                 THEN {i \in DOMAIN marks.a : Get(marks.a[i], "type") = Str(<<"anchor">>)}
                 ELSE {}
  IN IF anchors = {} THEN Undef
     ELSE Get(Get(marks.a[CHOOSE i \in anchors : \A j \in anchors : i <= j], "attrs"), "id")

\* the headings of the document that carry an anchor id, in document order
AnchoredHeadings(blok) ==
  LET content == Get(Get(blok, "copy"), "content")
  IN IF content.t # "array" THEN <<>>
     ELSE SelectSeq(content.a,
                    LAMBDA n : Get(n, "type") = Str(<<"heading">>) /\ AnchorIdOf(n).t = "string")

\* one {id, text} entry per anchored heading, in document order
AnchoredEntries(blok) ==
  LET hs == AnchoredHeadings(blok)
  IN [i \in DOMAIN hs |->
        Obj(<<P("id", AnchorIdOf(hs[i])), P("text", Get(FirstChild(hs[i]), "text"))>>)]

\* C9 (as stated): the extraction returns one {id, text} entry per heading whose
\* first child carries an anchor mark with an id, in document order, and no
\* entry at all for a heading without an anchor mark.
C9_UnanchoredHeadingsSkipped ==
  Returned("headlineAnchorIds") => result = Arr(AnchoredEntries(args[1]))

\* the entries of the result that carry an id
EntriesWithId == SelectSeq(result.a, LAMBDA e : Get(e, "id").t = "string")

\* C10: the extraction never deduplicates: the entries that carry an id are,
\* in order, those of the anchored headings, so an id carried by k anchored
\* headings appears in k entries, in the document order of those headings.
C10_NoDeduplication ==
  Returned("headlineAnchorIds") =>
    /\ EntriesWithId = AnchoredEntries(args[1])
    /\ \A id \in {Get(e, "id") : e \in {result.a[i] : i \in DOMAIN result.a}} :
         id.t = "string" =>
           Cardinality({i \in DOMAIN result.a : Get(result.a[i], "id") = id})
             = Cardinality({j \in DOMAIN AnchoredHeadings(args[1]) :
                             AnchorIdOf(AnchoredHeadings(args[1])[j]) = id})

\* two headings with the anchor id a1, an a2 heading between them
C10_Witness ==
  /\ Returned("headlineAnchorIds")
  /\ Len(EntriesWithId) = 3
  /\ EntriesWithId[1] = Obj(<<P("id", Str(<<"a1">>)), P("text", Str(<<"Intro">>))>>)
  /\ Get(EntriesWithId[2], "id") = Str(<<"a2">>)
  /\ EntriesWithId[3] = Obj(<<P("id", Str(<<"a1">>)), P("text", Str(<<"Again">>))>>)

-----------------------------------------------------------------------------
(* Claims about the build mode and the content version *)

\* the definitions of the helper that can be called: the one of env.ts, the
\* standalone copy, and each side of the merge in jsonld.ts taken alone
VersionHelpers ==
  {"getStoryblokVersion", "standalone.getStoryblokVersion",
   "jsonld.getStoryblokVersion (HEAD)", "jsonld.getStoryblokVersion (ed2f3cf)"}

\* C11: getStoryblokVersion returns 'draft' exactly when import.meta.env.DEV is
\* true or import.meta.env.MODE is 'development', and 'published' in every
\* other case; it returns no other value.  This holds of the helper of env.ts
\* and of its copies.
C11_VersionByBuildMode ==
  \A name \in VersionHelpers :
    Returned(name) =>
      /\ result \in {Str(<<"draft">>), Str(<<"published">>)}
      /\ (result = Str(<<"draft">>)) <=> (DEV \/ MODE = "development")

\* a staging build: not the dev server, MODE 'development', and env.ts
\* answers 'draft'
C11_Witness ==
  /\ Returned("getStoryblokVersion")
  /\ ~DEV
  /\ MODE = "development"
  /\ result = Str(<<"draft">>)

PageFetched == pc = "requested" /\ op = "pageFetch"

\* the fetch passes a version parameter
Versioned == fetch.version # ""

BridgeOn == ENABLE_STORYBLOK_BRIDGE = Str(<<"true">>)

\* C12 as stated: for every value of DEV and MODE, a page fetch asks for
\* 'draft' when ENABLE_STORYBLOK_BRIDGE is 'true' (server output) and for
\* 'published' when it is not (static output).
C12_ModeAndVersionAgree ==
  (PageFetched /\ Versioned) =>
    IF BridgeOn
    THEN output = Str(<<"server">>) /\ fetch.version = "draft"
    ELSE output = Str(<<"static">>) /\ fetch.version = "published"

\* C12 (amended): the version a page fetch passes follows the build mode and
\* not ENABLE_STORYBLOK_BRIDGE: it is 'draft' exactly when DEV is true or
\* MODE is 'development' and 'published' otherwise, for every value of the
\* variable; so it is 'draft' with the variable 'true' and 'published' with
\* the variable not 'true' exactly in the builds where the variable is 'true'
\* if and only if DEV is true or MODE is 'development'.
C12_ModeAndVersionSeparate ==
  (PageFetched /\ Versioned) =>
    /\ fetch.version = (IF DEV \/ MODE = "development" THEN "draft" ELSE "published")
    /\ (BridgeOn <=> (fetch.version = "draft")) <=> (BridgeOn <=> (DEV \/ MODE = "development"))

\* the variable is 'true' in a production-mode build: published content
C12_Witness ==
  /\ PageFetched
  /\ BridgeOn
  /\ ~DEV
  /\ MODE = "production"
  /\ fetch.version = "published"

Requested == fetch # NoFetch

\* C13 as stated: every Storyblok API call passes version:
\* getStoryblokVersion(), so in every build mode the version of every fetch
\* is the value the helper returns in that mode.
C13_EveryFetchUsesHelper ==
  Requested => fetch.version = getStoryblokVersion

\* C13 (amended): every API call of the pages, the layout and the components
\* that passes a version passes getStoryblokVersion(), so its version is the
\* value the helper returns in that build mode.  Two kinds of call do not:
\* the feed's request in rss.xml.js writes 'published' out and asks for it
\* in every build mode, and the calls get("cdn/stories/home") and
\* get(`cdn/stories/${id}`) of the related-content and debugging examples
\* pass no version at all.  No call writes 'draft' out.
C13_PageFetchesUseHelper ==
  Requested =>
    IF op = "GET"
    THEN fetch.version = "published"
    ELSE /\ op = "pageFetch"
         /\ IF Versioned
            THEN fetch.version = getStoryblokVersion /\ fetch.path \in PagePaths
            ELSE fetch.path \in PlainPaths

\* the dev server fetches the list of posts for a page: the same path and
\* content type as the feed's request, but the draft version
C13_Witness ==
  /\ PageFetched
  /\ DEV
  /\ fetch.path = "cdn/stories"
  /\ fetch.content_type = "blogPost"
  /\ fetch.version = "draft"

-----------------------------------------------------------------------------
(* Claims about the Image Derivation Engine *)

Breakpoints == Get(args[2], "breakpoints").a

AspectRatio == Get(args[2], "aspectRatio")

\* strictly ascending, hence free of duplicates
IsAscending(b) == \A i \in 1..(Len(b) - 1) : b[i].n < b[i + 1].n

\* h is round(w / r): h - 1/2 <= w / r < h + 1/2, for r = num/den > 0
IsRounded(h, w, r) ==
  /\ 2 * h * r.num - r.num <= 2 * w * r.den
  /\ 2 * w * r.den < 2 * h * r.num + r.num

StartsWith(s, prefix) == Len(s) >= Len(prefix) /\ SubSeq(s, 1, Len(prefix)) = prefix

\* the candidate's url asks for the geometry w x h of the asset
HasGeometry(c, url, w, h) ==
  StartsWith(Get(c, "url").s,
             url.s \o <<"/m/">> \o NumToJson(w) \o <<"x">> \o NumToJson(h) \o <<"/">>)

\* C14: for an ascending, duplicate-free, positive breakpoint list B and an
\* aspect ratio r > 0 (and an absolute asset url, ImageAsset's invariant), the
\* responsive descriptor build returns one candidate per breakpoint, with the
\* widths of B in the order of B, each candidate's height being
\* round(width / r); the candidate widths are ascending, unique and positive.
C14_CandidatesFollowBreakpoints ==
  ( /\ Returned("generateResponsiveImageData")
    /\ isAbsoluteAssetUrl(args[1])
    /\ Breakpoints # <<>>
    /\ Breakpoints[1].n > 0
    /\ IsAscending(Breakpoints)
    /\ AspectRatio.num > 0 )
  => /\ result.t = "object"
     /\ LET c == Get(result, "srcset").a
        IN /\ Len(c) = Len(Breakpoints)
           /\ \A i \in DOMAIN c :
                /\ Get(c[i], "width") = Breakpoints[i]
                /\ \E h \in 0..(2 * Breakpoints[i].n) :
                     /\ IsRounded(h, Breakpoints[i].n, AspectRatio)
                     /\ HasGeometry(c[i], args[1], Breakpoints[i].n, h)
           /\ \A i \in DOMAIN c : Get(c[i], "width").n > 0
           /\ \A i, j \in DOMAIN c : i < j => Get(c[i], "width").n < Get(c[j], "width").n

\* breakpoints 3, 8, 240 at 16:9: the heights are 2, 5 (4.5 rounds up), 135
C14_Witness ==
  /\ Returned("generateResponsiveImageData")
  /\ args[1] = AssetUrl
  /\ Breakpoints = <<Num(3), Num(8), Num(240)>>
  /\ AspectRatio = Ratio(16, 9)
  /\ result.t = "object"
  /\ Keys(result) = {"src", "srcset", "sizes"}
  /\ HasGeometry(Get(result, "srcset").a[2], AssetUrl, 8, 5)
  /\ HasGeometry(Get(result, "srcset").a[3], AssetUrl, 240, 135)

\* the call breaks the contract of the responsive descriptor build
BadConfiguration ==
  \/ Breakpoints = <<>>
  \/ \E i \in DOMAIN Breakpoints : Breakpoints[i].n <= 0
  \/ \E i, j \in DOMAIN Breakpoints : i < j /\ Breakpoints[i].n = Breakpoints[j].n
  \/ AspectRatio.num <= 0

\* C15: the responsive descriptor build fails with a ConfigurationError, and
\* returns no descriptor, when the breakpoint list is empty or holds a
\* non-positive or a repeated value, or when the aspect ratio is not positive.
C15_BadConfigurationRaises ==
  (Returned("generateResponsiveImageData") /\ BadConfiguration)
    => result = Threw("ConfigurationError")

\* a repeated breakpoint, everything else valid
C15_Witness ==
  /\ Returned("generateResponsiveImageData")
  /\ args[1] = AssetUrl
  /\ Breakpoints = <<Num(3), Num(8), Num(3)>>
  /\ AspectRatio = Ratio(3, 2)
  /\ result = Threw("ConfigurationError")

NoGeometry ==
  Get(args[2], "width").t = "undefined" /\ Get(args[2], "height").t = "undefined"

\* what the transform put after the input url
Appended == SubSeq(result.s, Len(args[1].s) + 1, Len(result.s))

\* C16: the single-image transform fails with a ValidationError whenever its
\* input is not an absolute URL; for an absolute URL it returns the input URL
\* followed by a transformation segment, which holds the geometry WxH when a
\* width or a height is given and, when both are absent, only the filters.
C16_TransformAppendsSegment ==
  Returned("optimizeStoryblokImage") =>
    IF ~IsAbsoluteUrl(args[1].s)
    THEN result = Threw("ValidationError")
    ELSE /\ result.t = "string"
         /\ StartsWith(result.s, args[1].s \o <<"/m/">>)
         /\ IF NoGeometry
            THEN /\ \A i \in DOMAIN Appended : Appended[i] # "x"
                 /\ Tail(Appended) = filterSegment(args[2])
            ELSE /\ \E i \in DOMAIN Appended : Appended[i] = "x"
                 /\ Tail(Appended)
                      = NumToJson(orZero(Get(args[2], "width"))) \o <<"x">>
                        \o NumToJson(orZero(Get(args[2], "height"))) \o <<"/">>
                        \o filterSegment(args[2])

\* no width and no height, format webp and quality 80: only the filters
C16_Witness ==
  /\ Returned("optimizeStoryblokImage")
  /\ args[1] = AssetUrl
  /\ NoGeometry
  /\ result = Str(AssetUrl.s \o <<"/m/", "filters", ":format(", "webp", ")",
                                  ":quality(", "8", "0", ")">>)

-----------------------------------------------------------------------------
(* Claims about the core and the build mode *)

\* the functions utils/jsonld.ts exports, but for schemaToJson; its last
\* export as committed, and as either side of the merge defines it
JsonldExports ==
  {"createPersonSchema", "createWebsiteSchema", "createBlogPostSchema",
   "createBreadcrumbSchema", "jsonld.getStoryblokVersion",
   "jsonld.getStoryblokVersion (HEAD)", "jsonld.getStoryblokVersion (ed2f3cf)"}

\* what the call name(a) returns when import.meta.env.DEV is dev and
\* import.meta.env.MODE is mode
ResultIn(name, a, dev, mode) ==
  CASE name = "createPersonSchema" -> createPersonSchema(a[1])
    [] name = "createWebsiteSchema" -> createWebsiteSchema(a[1])
    [] name = "createBlogPostSchema" -> createBlogPostSchema(a[1])
    [] name = "createBreadcrumbSchema" -> createBreadcrumbSchema(a[1], a[2])
    [] name = "jsonld.getStoryblokVersion" -> jsonldGetStoryblokVersion
    [] name = "jsonld.getStoryblokVersion (HEAD)" ->
         Str(<<IF dev \/ mode = "development" THEN "draft" ELSE "published">>)
    [] name = "jsonld.getStoryblokVersion (ed2f3cf)" ->
         Str(<<IF dev \/ mode = "development" THEN "draft" ELSE "published">>)

\* C19 (as stated): the core is version-agnostic: what an operation of the
\* structured-data module returns, what schemaToJson returns and what the feed
\* mapping returns is the same for every value of import.meta.env.DEV and
\* import.meta.env.MODE, so no operation of the module reads that state.
C19_CoreIgnoresBuildMode ==
  \A dev \in BOOLEAN, mode \in Modes :
    /\ (Returned(op) /\ op \in JsonldExports) => result = ResultIn(op, args, dev, mode)
    /\ (pc = "serialized") => json = schemaToJson(result)
    /\ (FeedDone /\ rssCalls # <<>>) => Feed = rssCall(args[1])

\* the closing tag of a script element: "</script", in either case
EndsScript(toks) ==
  \E i \in DOMAIN toks :
    /\ i + 2 \in DOMAIN toks
    /\ toks[i] = "<"
    /\ toks[i + 1] = "/"
    /\ toks[i + 2] \in {"script", "SCRIPT"}

\* C20 (as stated): the string schemaToJson returns can be embedded verbatim
\* in a linked-data script block: for every schema value, also one with a
\* string field that contains "</script", it contains no "</script".
C20_JsonNeverEndsScript ==
  pc = "serialized" => ~EndsScript(json)

-----------------------------------------------------------------------------
(* Further claims about the schema constructors *)

BreadcrumbReturned == Returned("createBreadcrumbSchema") /\ result.t = "object"

\* the i-th input item and the i-th list element of a breadcrumb call
ItemIn(i) == args[1].a[i]

ElementOut(i) == Get(result, "itemListElement").a[i]

\* C21: in createBreadcrumbSchema an item without a url (none, or the empty
\* string) yields a list element with no item key; when no baseUrl is given the call returns and every
\* item's url is emitted exactly as supplied, relative or absolute; an emitted
\* item differs from the supplied url only when both the item url and the
\* baseUrl are present.
C21_UrlKeptWithoutBase ==
  /\ (Returned("createBreadcrumbSchema") /\ ~Truthy(args[2])) => result.t = "object"
  /\ BreadcrumbReturned =>
       \A i \in DOMAIN args[1].a :
         LET url == Get(ItemIn(i), "url")
         IN /\ ~Truthy(url) => ~HasKey(ElementOut(i), "item")
            /\ (Truthy(url) /\ ~Truthy(args[2])) => Get(ElementOut(i), "item") = url
            /\ (HasKey(ElementOut(i), "item") /\ Get(ElementOut(i), "item") # url)
                 => (Truthy(url) /\ Truthy(args[2]))

\* no baseUrl: the relative url ../a and the item without a url
C21_Witness ==
  /\ BreadcrumbReturned
  /\ args[2] = Undef
  /\ Len(args[1].a) = 2
  /\ Get(ItemIn(1), "url") = Str(<<"..", "/", "a">>)
  /\ Get(ElementOut(1), "item") = Str(<<"..", "/", "a">>)
  /\ ~HasKey(ItemIn(2), "url")
  /\ ~HasKey(ElementOut(2), "item")

NonEmptyString(v) == v.t = "string" /\ v.s # <<>>

\* C23: in createWebsiteSchema and createBlogPostSchema the publisher key is
\* present exactly when a non-empty publisherName is supplied, and it then
\* holds that name; publisher.url is present exactly when a non-empty
\* publisherName and a non-empty publisherUrl are both supplied, so a
\* publisherUrl without a publisherName produces no publisher key at all.
C23_PublisherFollowsName ==
  (Returned("createWebsiteSchema") \/ Returned("createBlogPostSchema")) =>
    LET name == Get(args[1], "publisherName")
        url == Get(args[1], "publisherUrl")
        publisher == Get(result, "publisher")
    IN /\ HasKey(result, "publisher") <=> NonEmptyString(name)
       /\ NonEmptyString(name) =>
            /\ Get(publisher, "name") = name
            /\ HasKey(publisher, "url") <=> NonEmptyString(url)
            /\ NonEmptyString(url) => Get(publisher, "url") = url

\* a publisherUrl is supplied without a publisherName: no publisher
C23_Witness ==
  /\ Returned("createBlogPostSchema")
  /\ ~HasKey(args[1], "publisherName")
  /\ NonEmptyString(Get(args[1], "publisherUrl"))
  /\ ~HasKey(result, "publisher")

TypeTag(name) ==
  CASE name = "createPersonSchema" -> "Person"
    [] name = "createWebsiteSchema" -> "WebSite"
    [] name = "createBlogPostSchema" -> "BlogPosting"
    [] name = "createBreadcrumbSchema" -> "BreadcrumbList"

\* C24: every result of createBlogPostSchema holds mainEntityOfPage with
\* '@type' 'WebPage' and '@id' equal to the result's url, and an author object
\* whose name is authorName; every result of a constructor has '@context'
\* 'https://schema.org' and the '@type' of its variant, and every element of a
\* breadcrumb list has '@type' 'ListItem'.
C24_TagsAndMainEntity ==
  (ConstructorReturned /\ result.t = "object") =>
    /\ Get(result, "@context") = Str(<<"https://schema.org">>)
    /\ Get(result, "@type") = Str(<<TypeTag(op)>>)
    /\ op = "createBlogPostSchema" =>
         /\ Get(Get(result, "mainEntityOfPage"), "@type") = Str(<<"WebPage">>)
         /\ Get(Get(result, "mainEntityOfPage"), "@id") = Get(result, "url")
         /\ Get(result, "url") = Get(args[1], "url")
         /\ Get(Get(result, "author"), "@type") = Str(<<"Person">>)
         /\ Get(Get(result, "author"), "name") = Get(args[1], "authorName")
    /\ op = "createBreadcrumbSchema" =>
         \A i \in DOMAIN args[1].a : Get(ElementOut(i), "@type") = Str(<<"ListItem">>)

\* a blog post with an author url and a publisher
C24_Witness ==
  /\ Returned("createBlogPostSchema")
  /\ HasKey(Get(result, "author"), "url")
  /\ HasKey(result, "publisher")
  /\ Get(Get(result, "mainEntityOfPage"), "@id") = Str(Base \o <<"/", "blog", "/", "a">>)

\* the optional fields of a constructor's input
OptionalFields(name) ==
  CASE name = "createPersonSchema" -> {"jobTitle", "description", "image", "sameAs"}
    [] name = "createWebsiteSchema" -> {"description", "publisherName", "publisherUrl"}
    [] name = "createBlogPostSchema" ->
         {"authorUrl", "dateModified", "image", "publisherName", "publisherUrl"}
    [] name = "createBreadcrumbSchema" -> {}

Construct(name, data) ==
  CASE name = "createPersonSchema" -> createPersonSchema(data)
    [] name = "createWebsiteSchema" -> createWebsiteSchema(data)
    [] name = "createBlogPostSchema" -> createBlogPostSchema(data)

\* the object without its property k
Without(obj, k) == Obj(SelectSeq(obj.o, LAMBDA p : p.k # k))

IsEmptySupplied(v) == v = Str(<<>>) \/ v = Arr(<<>>)

\* C25: the constructors treat an empty value as absent: with an optional
\* field supplied as the empty string, or sameAs as an empty list, the result
\* is the one the same call returns when that field is not supplied; the same
\* holds of a breadcrumb item whose url is the empty string.
C25_EmptyAsAbsent ==
  /\ (ConstructorReturned /\ op # "createBreadcrumbSchema") =>
       \A k \in OptionalFields(op) :
         IsEmptySupplied(Get(args[1], k)) => result = Construct(op, Without(args[1], k))
  /\ Returned("createBreadcrumbSchema") =>
       \A i \in DOMAIN args[1].a :
         Get(ItemIn(i), "url") = Str(<<>>) =>
           result = createBreadcrumbSchema(
                      Arr([args[1].a EXCEPT ![i] = Without(@, "url")]), args[2])

\* jobTitle '' and sameAs []: only the four required keys come back
C25_Witness ==
  /\ Returned("createPersonSchema")
  /\ Get(args[1], "jobTitle") = Str(<<>>)
  /\ Get(args[1], "sameAs") = Arr(<<>>)
  /\ ~HasKey(args[1], "description")
  /\ ~HasKey(args[1], "image")
  /\ Keys(result) = {"@context", "@type", "name", "url"}

\* the url is one the code hands to new URL: not empty, and starting with
\* neither http:// nor https://
NeedsResolving(url) ==
  /\ Truthy(url)
  /\ ~StartsWith(url.s, <<"http:", "//">>)
  /\ ~StartsWith(url.s, <<"https:", "//">>)

ValidBase(baseUrl) == baseUrl.t = "string" /\ ParseAbsolute(baseUrl.s).ok

\* C26 as stated: createBreadcrumbSchema raises only when an item has a url
\* that starts with neither 'http://' nor 'https://' and the supplied baseUrl
\* is not a valid absolute URL; for every other input, a valid baseUrl among
\* them, it returns a schema.
C26_RaisesOnlyOnBadBase ==
  (Returned("createBreadcrumbSchema") /\ result.t = "throw") =>
    /\ \E i \in DOMAIN args[1].a : NeedsResolving(Get(ItemIn(i), "url"))
    /\ ~ValidBase(args[2])

\* C26 (amended): createBreadcrumbSchema raises only when a non-empty baseUrl
\* is given and an item has a url that starts with neither 'http://' nor
\* 'https://'; it then raises a TypeError whenever the baseUrl is not a valid
\* absolute URL, and with a valid baseUrl only when the url itself cannot be
\* resolved against it, as '//' which names no host; for every other input it
\* returns a schema.
C26_RaisesWhenNewURLRejects ==
  Returned("createBreadcrumbSchema") =>
    LET resolved == {i \in DOMAIN args[1].a : NeedsResolving(Get(ItemIn(i), "url"))}
    IN /\ result.t = "throw" => (result = Threw("TypeError") /\ Truthy(args[2]) /\ resolved # {})
       /\ (Truthy(args[2]) /\ resolved # {} /\ ~ValidBase(args[2])) => result.t = "throw"
       /\ (ValidBase(args[2]) /\ result.t = "throw") =>
            \E i \in resolved : Get(ItemIn(i), "url") = Str(<<"//">>)
       /\ (ValidBase(args[2]) /\ \A i \in resolved : Get(ItemIn(i), "url") # Str(<<"//">>))
            => result.t = "object"

\* the url '//' against the valid base https://h.de
C26_Witness ==
  /\ Returned("createBreadcrumbSchema")
  /\ args[2] = Str(Base)
  /\ Len(args[1].a) = 1
  /\ Get(ItemIn(1), "url") = Str(<<"//">>)
  /\ result = Threw("TypeError")

-----------------------------------------------------------------------------
(* Claims about the configuration, the feed's order of events and the       *)
(* copies of the version helper                                              *)

\* C22 (as stated): for every value of ENABLE_STORYBLOK_BRIDGE the
\* configuration is consistent: the Bridge is enabled exactly when the
\* variable is the string 'true', the output is 'server' when the Bridge is
\* enabled and 'static' otherwise, the Cloudflare adapter is set exactly when
\* the output is 'server', and the mkcert plugin is loaded exactly when the
\* Bridge is enabled.
C22_ConfigConsistent ==
  /\ config.t = "config"
  /\ config.bridge <=> ENABLE_STORYBLOK_BRIDGE = Str(<<"true">>)
  /\ config.output = (IF config.bridge THEN Str(<<"server">>) ELSE Str(<<"static">>))
  /\ (config.adapter = Str(<<"cloudflare()">>)) <=> (config.output = Str(<<"server">>))
  /\ (config.adapter = Undef) <=> (config.output = Str(<<"static">>))
  /\ (\E i \in DOMAIN config.plugins : config.plugins[i] = "mkcert()") <=> config.bridge

GETRejected == op = "GET" /\ pc = "done" /\ result.t = "throw"

FetchRejected == op = "GET" /\ pc = "done" /\ args = <<>>

\* the fetch resolved with a story that has no content object, and GET went on
ContentMissing ==
  /\ op = "GET"
  /\ pc \in {"rssCalled", "done"}
  /\ args # <<>>
  /\ \E i \in DOMAIN Stories : Get(Stories[i], "content").t \in {"undefined", "null"}

\* C27: the RSS endpoint builds the feed only after the story fetch has
\* resolved: rss is called at most once per GET and never before the fetch
\* completes, and when the fetch rejects or a story has no content object the
\* GET rejects without a call of rss.  GET is not done before rss was called
\* or its argument threw, and it resolves only with the Response of rss.
C27_FeedOnlyAfterFetch ==
  /\ Len(rssCalls) <= 1
  /\ rssCalls # <<>> =>
       /\ op = "GET"
       /\ pc \in {"rssCalled", "done"}
       /\ fetch = rssRequest
       /\ args # <<>>
       /\ rssCalls[1] = rssCall(args[1])
  /\ (FetchRejected \/ ContentMissing) => (GETRejected /\ rssCalls = <<>>)
  /\ pc = "rssCalled" => (op = "GET" /\ Len(rssCalls) = 1)
  /\ (op = "GET" /\ pc = "done" /\ ~GETRejected) =>
       (Len(rssCalls) = 1 /\ result = rssResponse(rssCalls[1]))

\* the fetch resolved with Post A and the story without content: GET rejects
\* and rss was not called
C27_Witness ==
  /\ ContentMissing
  /\ Len(Stories) = 2
  /\ Get(Stories[1], "name") = Str(<<"Post A">>)
  /\ result = Threw("TypeError")
  /\ rssCalls = <<>>

\* rss was called once and its promise is pending: GET is not done
C27_WitnessPending ==
  /\ op = "GET"
  /\ pc = "rssCalled"
  /\ Len(rssCalls) = 1
  /\ Len(Get(rssCalls[1], "items").a) = 2

\* C28: all definitions of getStoryblokVersion (the one of env.ts through
\* isDevelopment, the standalone one, and both sides of the one in jsonld.ts)
\* return the same value for every combination of import.meta.env.DEV and
\* import.meta.env.MODE: whichever of them is called, it returns what each of
\* the others returns in that build mode.
C28_VersionHelpersAgree ==
  (\E name \in VersionHelpers : Returned(name)) =>
    /\ result = Str(<<getStoryblokVersion>>)
    /\ result = Str(<<storyblokVersionOf(DEV, MODE)>>)
    /\ result = Str(<<jsonldVersionHead>>)
    /\ result = Str(<<jsonldVersionIncoming>>)

\* the dev server in MODE 'production': the HEAD side of jsonld.ts answers
\* 'draft'
C28_Witness ==
  /\ Returned("jsonld.getStoryblokVersion (HEAD)")
  /\ DEV
  /\ MODE = "production"
  /\ result = Str(<<"draft">>)

-----------------------------------------------------------------------------
(* Claims about the Select component *)

SelectRendered == Returned("Select")

SelectElement == Get(result, "select")

ErrorElement == Get(result, "error")

HelperElement == Get(result, "helper")

\* a child that is an element is rendered; undefined, '' and false are not
IsRendered(child) == child.t = "object"

\* C29: Select never passes both a value and a defaultValue to the select
\* element: when the value prop is defined the element is controlled (value is
\* the prop, defaultValue undefined), otherwise it is uncontrolled (value
\* undefined, defaultValue the defaultValue prop, or '' when that is absent).
C29_ControlledOrUncontrolled ==
  SelectRendered =>
    LET value == Get(args[1], "value")
        defaultValue == Get(args[1], "defaultValue")
    IN /\ Get(SelectElement, "value") = Undef \/ Get(SelectElement, "defaultValue") = Undef
       /\ value # Undef =>
            /\ Get(SelectElement, "value") = value
            /\ Get(SelectElement, "defaultValue") = Undef
       /\ value = Undef =>
            /\ Get(SelectElement, "value") = Undef
            /\ Get(SelectElement, "defaultValue") =
                 (IF defaultValue = Undef THEN Str(<<>>) ELSE defaultValue)

\* the value '' next to the default 'at': controlled with the empty value
C29_Witness ==
  /\ SelectRendered
  /\ Get(args[1], "value") = Str(<<>>)
  /\ Get(args[1], "defaultValue") = Str(<<"at">>)
  /\ Get(SelectElement, "value") = Str(<<>>)
  /\ Get(SelectElement, "defaultValue") = Undef

\* C30: the error message and the helper text are never rendered together
\* (helper text only when there is no error), aria-invalid is 'true' exactly
\* when an error is set, and whenever aria-describedby is set it names the id
\* of the message element that is rendered (the error element when an error is
\* set, else the helper element), being undefined when neither is set.
C30_MessagesAndAriaAgree ==
  SelectRendered =>
    LET error == Get(args[1], "error")
        helperText == Get(args[1], "helperText")
        describedby == Get(SelectElement, "aria-describedby")
    IN /\ ~(IsRendered(ErrorElement) /\ IsRendered(HelperElement))
       /\ IsRendered(HelperElement) => ~Truthy(error)
       /\ (Get(SelectElement, "aria-invalid") = Str(<<"true">>)) <=> Truthy(error)
       /\ describedby # Undef =>
            IF Truthy(error)
            THEN IsRendered(ErrorElement) /\ describedby = Get(ErrorElement, "id")
            ELSE IsRendered(HelperElement) /\ describedby = Get(HelperElement, "id")
       /\ (~Truthy(error) /\ ~Truthy(helperText)) => describedby = Undef

====
